---- MODULE Spec2Model ----
\* A model of the per-tick simulation core of nmmo: the item exchange
\* (nmmo/systems/exchange.py) and the tick orchestrator (nmmo/core/realm.py).
EXTENDS Integers, Sequences, FiniteSets, TLC

\* ---------------------------------------------------------------- bounds
MaxTick == 2
MaxPrice == 1
MaxGold == 1
MaxQuantity == 2
MaxQueue == 2
\* config.EXCHANGE_LISTING_DURATION and config.ITEM_INVENTORY_CAPACITY, scaled down
EXCHANGE_LISTING_DURATION == 1
ITEM_INVENTORY_CAPACITY == 1

MaxHealth == 2
\* The levels of a skill, the experience of a skill
MaxLevel == 2
MaxExp == 1
\* The states of a pseudo-random generator, the map ids reset() is given
RngPeriod == 4
MaxMaps == 2
MaxDamage == 2
MaxUpdateDamage == 1

Ents == {1, 2}
\* Entity ids: players are positive, NPCs negative (Realm.entity_or_none)
NPCs == {-1}
AllEnts == Ents \cup NPCs
Items == {1, 2}
Ticks == 0..MaxTick
Prices == 0..MaxPrice

VARIABLES
  inventory,       \* entity -> set of item ids (entity.inventory.items)
  gold,            \* entity -> gold (entity.gold.val)
  quantity,        \* item -> item.quantity.val
  listed_price,    \* item -> item.listed_price.val
  item_listings,   \* Exchange._item_listings: item id -> ItemListing
  listings_queue,  \* Exchange._listings_queue: sequence of <<item_id, tick>>
  last_sell,       \* the tick of the latest sell() call, 0 before the first
  last,            \* the last call made and how it ended
  realm_tick,      \* Realm.tick
  entities,        \* the ids held by the entity store (players.entities, npcs.entities)
  health,          \* entity -> resources.health.val
  merged,          \* Realm.step: priority -> the (entity, action) pairs still to execute
  executed,        \* Realm.step: the pairs executed so far in this step, in order
  dead,            \* the value the last Realm.step returned
  player_kills,    \* entity -> history.player_kills
  updated,         \* Realm.step: players.update and npcs.update have run in this step
  pc,              \* "idle" between steps, "exec" in the loop of Realm.step, "culled"
                   \* after the culls, "error" once a step has raised
  runs,            \* two realms side by side: run -> its generators and what it drew
  combat,          \* the last call of combat.attack: its inputs, locals and result
  fight,           \* players under a sequence of combat.attack and Player.update calls
  summary,         \* a call of Exchange.packet: the listings it read, what it returned
  tasks,           \* a task of nmmo/lib/task.py, the instances generated from it, rewards
  expr,            \* a combination of tasks: the operands, the operator, its evaluation
  hazard,          \* a call of Player.update: the configuration, the tick, the position
                   \* of the player and the damage the death fog applied
  helper           \* a TeamHelper: its arguments, its fields, what its methods returned

exchange_vars == <<inventory, gold, quantity, listed_price, item_listings,
                   listings_queue, last_sell, last>>
realm_vars == <<realm_tick, entities, health, merged, executed, dead, player_kills,
                updated, pc>>
query_vars == <<summary, tasks, expr, helper, hazard>>
pure_vars == <<runs, combat, fight, query_vars>>
vars == <<exchange_vars, realm_vars, pure_vars>>

\* ------------------------------------------------------ exchange.py: data
ItemListing(seller, price, tick) == [seller |-> seller, price |-> price, tick |-> tick]

\* The exchange's own state, with the listed_price attribute of the items it updates.
Book == [listings |-> item_listings, queue |-> listings_queue, price |-> listed_price]

\* dict[key] = value
DictPut(d, k, v) == [j \in (DOMAIN d) \cup {k} |-> IF j = k THEN v ELSE d[j]]

\* dict.pop(key)
DictPop(d, k) == [j \in (DOMAIN d) \ {k} |-> d[j]]

\* _list_item with the queue entry put at the head of the queue (appendleft)
ListItemAtHead(ex, item, seller, price, tick) ==
  [price    |-> [ex.price EXCEPT ![item] = price],
   listings |-> DictPut(ex.listings, item, ItemListing(seller, price, tick)),
   queue    |-> <<(<<item, tick>>)>> \o ex.queue]

\* _list_item that keeps the tick of a listing it overwrites
ListItemKeepTick(ex, item, seller, price, tick) ==
  [price    |-> [ex.price EXCEPT ![item] = price],
   listings |-> DictPut(ex.listings, item,
                  ItemListing(seller, price,
                    IF item \in DOMAIN ex.listings THEN ex.listings[item].tick ELSE tick)),
   queue    |-> Append(ex.queue, <<item, tick>>)]

\* Exchange._list_item
_list_item(ex, item, seller, price, tick) ==
  [price    |-> [ex.price EXCEPT ![item] = price],
   listings |-> DictPut(ex.listings, item, ItemListing(seller, price, tick)),
   queue    |-> Append(ex.queue, <<item, tick>>)]

\* Exchange._unlist_item
_unlist_item(ex, item_id) ==
  [price    |-> [ex.price EXCEPT ![item_id] = 0],
   listings |-> DictPop(ex.listings, item_id),
   queue    |-> ex.queue]

\* Exchange.unlist_item
unlist_item(ex, item) ==
  IF item \in DOMAIN ex.listings THEN _unlist_item(ex, item) ELSE ex

\* StepPop without the second test: the popped entry's item is unlisted if listed
StepPopNoRecheck(ex, current_tick) ==
  LET item_id == Head(ex.queue)[1]
      popped  == [ex EXCEPT !.queue = Tail(ex.queue)]
  IN  IF item_id \in DOMAIN popped.listings
      THEN [price    |-> [popped.price EXCEPT ![item_id] = 0],
            listings |-> DictPop(popped.listings, item_id),
            queue    |-> popped.queue]
      ELSE popped

\* One pass of the body of the while loop of Exchange.step, after the break test:
\* pop the head and unlist its item if the live listing is expired too.
StepPop(ex, current_tick) ==
  LET item_id == Head(ex.queue)[1]
      popped  == [ex EXCEPT !.queue = Tail(ex.queue)]
  IN  IF /\ item_id \in DOMAIN popped.listings
         /\ current_tick - popped.listings[item_id].tick > EXCHANGE_LISTING_DURATION
      THEN _unlist_item(popped, item_id)
      ELSE popped

\* The break test with < for <=: a head as old as the listing duration is popped
HeadYoungerThanDuration(ex, current_tick) ==
  current_tick - Head(ex.queue)[2] < EXCHANGE_LISTING_DURATION

\* The break test of Exchange.step on the head of the queue
HeadNotExpired(ex, current_tick) ==
  current_tick - Head(ex.queue)[2] <= EXCHANGE_LISTING_DURATION

\* Exchange.step
RECURSIVE step(_, _)
step(ex, current_tick) ==
  IF ex.queue = <<>> THEN ex
  ELSE IF HeadNotExpired(ex, current_tick) THEN ex
  ELSE step(StepPop(ex, current_tick), current_tick)

\* ------------------------------------- inventory, gold (nmmo.systems.inventory)
\* Inventory.space: the inventory holds fewer items than its capacity
space(inv, e) == Cardinality(inv[e]) < ITEM_INVENTORY_CAPACITY

\* Inventory.remove(item), Inventory.receive(item)
remove(inv, e, item) == [inv EXCEPT ![e] = @ \ {item}]
receive(inv, e, item) == [inv EXCEPT ![e] = @ \cup {item}]

\* ------------------------------------------------------------ calls
\* The record of a call: its name, its arguments and the error it raised ("none"
\* when it returned); for step, the queue entries it popped and the items it evicted.
Call(op, ent, item, price, tick, err) ==
  [op |-> op, ent |-> ent, item |-> item, price |-> price, tick |-> tick, err |-> err,
   popped |-> <<>>, evicted |-> {}]

SetBook(ex) ==
  /\ item_listings' = ex.listings
  /\ listings_queue' = ex.queue
  /\ listed_price' = ex.price

\* The asserts of Exchange.sell without the test of the seller's inventory
SellAssertsNoOwner(seller, item) == quantity[item] > 0

\* The asserts of Exchange.sell
SellAsserts(seller, item) == item \in inventory[seller] /\ quantity[item] > 0

\* Exchange.sell(seller, item, price, tick)
Sell(seller, item, price, tick) ==
  /\ Len(listings_queue) < MaxQueue
  /\ last_sell <= tick          \* sell() is called at non-decreasing ticks
  /\ IF SellAsserts(seller, item)
     THEN /\ SetBook(_list_item(Book, item, seller, price, tick))
          /\ last' = Call("sell", seller, item, price, tick, "none")
     ELSE /\ UNCHANGED <<item_listings, listings_queue, listed_price>>
          /\ last' = Call("sell", seller, item, price, tick, "AssertionError")
  /\ last_sell' = tick
  /\ UNCHANGED <<inventory, gold, quantity>>
  /\ UNCHANGED realm_vars
  /\ UNCHANGED pure_vars

\* gold.decrement(val), gold.increment(val)
decrement(g, e, val) == [g EXCEPT ![e] = @ - val]
increment(g, e, val) == [g EXCEPT ![e] = @ + val]

\* The tests of Exchange.buy, in the order the code makes them
BuyListed(item_id) == item_id \in DOMAIN item_listings
BuyQuantityOne(item_id) == quantity[item_id] = 1
BuyHasSpace(buyer) == space(inventory, buyer)
BuyCanPay(buyer, item_id) == gold[buyer] >= listed_price[item_id]

\* The amount Exchange.buy moves from the buyer to the seller: item.listed_price.val,
\* read after _unlist_item has run.
BuyAmount(ex_after, listing, item_id) == ex_after.price[item_id]

\* How a buy whose tests all pass ends: self._realm.log(...) is the last statement,
\* and Realm defines no attribute log.
BuyOutcome == "AttributeError"

\* Exchange.buy(buyer, item_id)
Buy(buyer, item_id) ==
  /\ UNCHANGED <<quantity, last_sell>>
  /\ UNCHANGED realm_vars
  /\ UNCHANGED pure_vars
  /\ IF ~BuyListed(item_id)
     THEN /\ last' = Call("buy", buyer, item_id, 0, 0, "KeyError")
          /\ UNCHANGED <<item_listings, listings_queue, listed_price, inventory, gold>>
     ELSE IF ~BuyQuantityOne(item_id)
     THEN /\ last' = Call("buy", buyer, item_id, 0, 0, "AssertionError")
          /\ UNCHANGED <<item_listings, listings_queue, listed_price, inventory, gold>>
     ELSE IF ~BuyHasSpace(buyer) \/ ~BuyCanPay(buyer, item_id)
     THEN /\ last' = Call("buy", buyer, item_id, 0, 0, "none")
          /\ UNCHANGED <<item_listings, listings_queue, listed_price, inventory, gold>>
     ELSE LET listing == item_listings[item_id]
              ex      == _unlist_item(Book, item_id)
              amount  == BuyAmount(ex, listing, item_id)
          IN  /\ SetBook(ex)
              /\ inventory' = receive(remove(inventory, listing.seller, item_id),
                                      buyer, item_id)
              /\ gold' = increment(decrement(gold, buyer, amount), listing.seller, amount)
              /\ last' = Call("buy", buyer, item_id, 0, 0, BuyOutcome)

\* Exchange.unlist_item(item)
Unlist(item) ==
  /\ SetBook(unlist_item(Book, item))
  /\ last' = Call("unlist_item", 0, item, 0, 0, "none")
  /\ UNCHANGED <<inventory, gold, quantity, last_sell>>
  /\ UNCHANGED realm_vars
  /\ UNCHANGED pure_vars

\* Exchange.step(current_tick)
Step(current_tick) ==
  /\ SetBook(step(Book, current_tick))
  /\ last' = [Call("step", 0, 0, 0, current_tick, "none") EXCEPT
                !.popped = SubSeq(listings_queue, 1,
                             Len(listings_queue) - Len(listings_queue')),
                !.evicted = (DOMAIN item_listings) \ (DOMAIN item_listings')]
  /\ UNCHANGED <<inventory, gold, quantity, last_sell>>
  /\ UNCHANGED realm_vars
  /\ UNCHANGED pure_vars

\* The exchange and the items as Exchange.__init__ and the inventories set them up
ExchangeInit ==
  /\ listed_price = [i \in Items |-> 0]
  /\ item_listings = <<>>
  /\ listings_queue = <<>>
  /\ last_sell = 0
  /\ last = Call("init", 0, 0, 0, 0, "none")

\* The realm between two steps, at tick 0 with every entity at full health
RealmIdle ==
  /\ realm_tick = 0
  /\ entities = AllEnts
  /\ health = [e \in AllEnts |-> MaxHealth]
  /\ merged = [p \in {} |-> {}]
  /\ executed = <<>>
  /\ dead = {}
  /\ player_kills = [e \in AllEnts |-> 0]
  /\ updated = FALSE
  /\ pc = "idle"

\* No second realm is run, combat.attack has not been called, no fight is followed,
\* no packet, task, combination of tasks or TeamHelper is looked at
NoRuns == runs = <<>>
NoCombat == combat = <<>>
NoFight == fight = <<>>
NoSummary == summary = <<>>
NoTasks == tasks = <<>>
NoExpr == expr = <<>>
NoHelper == helper = <<>>
NoHazard == hazard = <<>>
NoQueries == NoSummary /\ NoTasks /\ NoExpr /\ NoHelper /\ NoHazard

\* The exchange alone: any placement of the items in the inventories, a buyer
\* without gold and one with MaxGold, item 1 a single item and item 2 of any
\* quantity (none, single, stacked)
Init ==
  /\ inventory \in [AllEnts -> SUBSET Items]
  /\ \A e1, e2 \in AllEnts : e1 # e2 => inventory[e1] \cap inventory[e2] = {}
  /\ \A e \in Ents : Cardinality(inventory[e]) <= ITEM_INVENTORY_CAPACITY
  /\ \A e \in NPCs : inventory[e] = {}
  /\ gold = [e \in Ents |-> IF e = 1 THEN 0 ELSE MaxGold]
  /\ quantity \in [Items -> 0..MaxQuantity]
  /\ quantity[1] = 1
  /\ ExchangeInit
  /\ RealmIdle
  /\ NoRuns
  /\ NoCombat
  /\ NoFight
  /\ NoQueries

Next ==
  \/ \E s \in Ents, i \in Items, p \in Prices, t \in Ticks : Sell(s, i, p, t)
  \/ \E b \in Ents, i \in Items : Buy(b, i)
  \/ \E i \in Items : Unlist(i)
  \/ \E t \in Ticks : Step(t)

Spec == Init /\ [][Next]_vars

\* ---------------------------------------------------------------- realm.py
\* The action types and their priority (atn.priority), a property of the type
ActionTypes == {"Attack", "Move"}
priority(atn) == IF atn = "Attack" THEN 1 ELSE 2
Priorities == {priority(atn) : atn \in ActionTypes}

\* One submitted action: the entity id it is keyed by, its type and its arguments
\* (the target of an Attack, 0 for a Move)
Action(ent, atn, target) == [ent |-> ent, atn |-> atn, target |-> target]

\* The action dicts a caller can submit for the ids in ids: for each id at most one
\* action of each type
ActionsOf(e) ==
  {Action(e, "Move", 0)} \cup {Action(e, "Attack", t) : t \in AllEnts \ {e}}
Submissions(ids) ==
  {A \in SUBSET (UNION {ActionsOf(e) : e \in ids}) :
     \A a, b \in A : (a.ent = b.ent /\ a.atn = b.atn) => a = b}

\* prioritized(entities, merged): every action appended to the bucket of its priority
prioritized(actions, m) ==
  [p \in (DOMAIN m) \cup {priority(a.atn) : a \in actions} |->
     (IF p \in DOMAIN m THEN m[p] ELSE {}) \cup {a \in actions : priority(a.atn) = p}]

\* Entity.alive
alive(h, e) == h[e] > 0

\* The damage taken off the health the entity had when it was spawned, whatever it
\* has lost since
DamagedFromFull(h, e, dmg) == [h EXCEPT ![e] = IF MaxHealth > dmg THEN MaxHealth - dmg ELSE 0]

\* resources.health.decrement(dmg)
damaged(h, e, dmg) == [h EXCEPT ![e] = IF @ > dmg THEN @ - dmg ELSE 0]

\* ------------------------------------------------------------ player.py
\* The source of a damage nobody dealt (receive_damage(None, dmg)); ids are non-zero
None == 0

\* config.IMMORTAL, config.ITEM_SYSTEM_ENABLED
IMMORTAL == FALSE
ITEM_SYSTEM_ENABLED == TRUE

\* What receive_damage reads and writes: the healths, the inventories, the kill
\* counters, the immortal flag each player took from the configuration, and the
\* error it raised
Effects == [health |-> health, inventory |-> inventory, kills |-> player_kills,
            immortal |-> [e \in Ents |-> IMMORTAL], err |-> "none"]

\* Entity.receive_damage(source, dmg): the health is decremented; the caller reads
\* the entity's alive flag as the result
EntityReceiveDamage(w, self, dmg) == [w EXCEPT !.health = damaged(@, self, dmg)]

\* The items the loop of Player.receive_damage moves: those of a quantity
Loot(w, self) == {i \in w.inventory[self] : quantity[i] # 0}

\* Player.receive_damage without the test of the immortal flag
ReceiveDamageOfMortal(w, self, source, dmg) ==
  LET w1 == EntityReceiveDamage(w, self, dmg) IN
  IF alive(w1.health, self) THEN w1
  ELSE IF ~ITEM_SYSTEM_ENABLED THEN w1
  ELSE IF Loot(w1, self) # {} /\ source = None
  THEN LET item == CHOOSE i \in Loot(w1, self) : \A j \in Loot(w1, self) : i <= j
       IN  [w1 EXCEPT !.inventory = remove(@, self, item), !.err = "AttributeError"]
  ELSE
    LET loot == Loot(w1, self)
        w2 == IF loot = {} THEN w1
              ELSE [w1 EXCEPT !.inventory =
                      [@ EXCEPT ![self] = @ \ loot, ![source] = @ \cup loot]]
        w3 == EntityReceiveDamage(w2, self, dmg)
    IN  IF ~alive(w3.health, self)
        THEN IF source # None THEN [w3 EXCEPT !.kills[source] = @ + 1] ELSE w3
        ELSE w3

\* Player.receive_damage(source, dmg)
receive_damage(w, self, source, dmg) ==
  IF w.immortal[self] THEN w
  ELSE
    LET w1 == EntityReceiveDamage(w, self, dmg) IN
    IF alive(w1.health, self) THEN w1
    ELSE IF ~ITEM_SYSTEM_ENABLED THEN w1
    ELSE IF Loot(w1, self) # {} /\ source = None
    THEN \* the first item is removed, then source.inventory raises
         LET item == CHOOSE i \in Loot(w1, self) : \A j \in Loot(w1, self) : i <= j
         IN  [w1 EXCEPT !.inventory = remove(@, self, item), !.err = "AttributeError"]
    ELSE
      LET loot == Loot(w1, self)
          w2 == IF loot = {} THEN w1
                ELSE [w1 EXCEPT !.inventory =
                        [@ EXCEPT ![self] = @ \ loot, ![source] = @ \cup loot]]
          w3 == EntityReceiveDamage(w2, self, dmg)
      IN  IF ~alive(w3.health, self)
          THEN IF source # None THEN [w3 EXCEPT !.kills[source] = @ + 1] ELSE w3
          ELSE w3

\* ------------------------------------------------------ realm.py: Realm.step
\* players.update(actions): Player.update of every player of the store, in the order
\* of the store; upd is the damage the death fog deals to each
RECURSIVE UpdateAll(_, _, _)
UpdateAll(w, ids, upd) ==
  IF ids = {} \/ w.err # "none" THEN w
  ELSE LET e == CHOOSE x \in ids : \A y \in ids : x <= y
       IN  UpdateAll(receive_damage(w, e, None, upd[e]), ids \ {e}, upd)

Update(w, upd) == UpdateAll(w, entities \cap DOMAIN upd, upd)

SetEffects(w) ==
  /\ health' = w.health
  /\ inventory' = w.inventory
  /\ player_kills' = w.kills

\* Realm.step, up to the loop: the actions of the players and of the NPCs are merged
\* by priority, then every entity is updated
RealmStepBegin(actions, npc_actions, upd) ==
  /\ UNCHANGED pure_vars
  /\ pc = "idle"
  /\ merged' = prioritized(npc_actions, prioritized(actions, [p \in {} |-> {}]))
  /\ LET w == Update(Effects, upd) IN
       /\ SetEffects(w)
       /\ pc' = IF w.err = "none" THEN "exec" ELSE "error"
  /\ updated' = TRUE
  /\ executed' = <<>>
  /\ UNCHANGED <<realm_tick, entities, dead>>
  /\ UNCHANGED <<gold, quantity, listed_price, item_listings, listings_queue,
                 last_sell, last>>

\* The buckets left, the highest priority value first
NextBucketHighest(m) ==
  CHOOSE p \in DOMAIN m : m[p] # {} /\ \A q \in DOMAIN m : m[q] # {} => p >= q

\* sorted(merged): the buckets left, the lowest priority first
NextBucket(m) ==
  CHOOSE p \in DOMAIN m : m[p] # {} /\ \A q \in DOMAIN m : m[q] # {} => p <= q

\* Realm.entity_or_none(ent_id): the entity of the store, if it holds the id
InStore(ent_id) == ent_id \in entities

\* atn.call(realm, ent, *args): an Attack deals dmg to its target through
\* combat.attack and the target's receive_damage; a Move changes nothing modelled here
ActionCall(w, a, dmg) ==
  IF a.atn = "Attack" /\ a.target \in entities
  THEN IF a.target \in Ents
       THEN receive_damage(w, a.target, a.ent, dmg)
       ELSE EntityReceiveDamage(w, a.target, dmg)
  ELSE w

Pending(m) == \E p \in DOMAIN m : m[p] # {}

\* The loop of Realm.step with one action per entity: the pair of an entity that
\* has run an action in this step is dropped
RealmStepExecuteOncePerEntity ==
  /\ UNCHANGED pure_vars
  /\ pc = "exec"
  /\ Pending(merged)
  /\ LET p == NextBucket(merged) IN
     \E a \in merged[p], dmg \in 0..MaxDamage :
       /\ merged' = [merged EXCEPT ![p] = @ \ {a}]
       /\ IF ~InStore(a.ent)
          THEN /\ pc' = "error"
               /\ UNCHANGED <<health, inventory, player_kills, executed>>
          ELSE IF \E k \in 1..Len(executed) : executed[k].ent = a.ent
          THEN /\ pc' = pc
               /\ UNCHANGED <<health, inventory, player_kills, executed>>
          ELSE /\ SetEffects(ActionCall(Effects, a, dmg))
               /\ executed' = Append(executed,
                    [ent |-> a.ent, atn |-> a.atn, target |-> a.target, priority |-> p,
                     alive |-> alive(health, a.ent)])
               /\ pc' = pc
  /\ UNCHANGED <<realm_tick, entities, dead, updated>>
  /\ UNCHANGED <<gold, quantity, listed_price, item_listings, listings_queue,
                 last_sell, last>>

\* The loop of Realm.step over a bucket that is not shuffled: the pairs of the
\* players (appended first) run before those of the NPCs
RealmStepExecutePlayersFirst ==
  /\ UNCHANGED pure_vars
  /\ pc = "exec"
  /\ Pending(merged)
  /\ LET p == NextBucket(merged) IN
     \E a \in merged[p], dmg \in 0..MaxDamage :
       /\ a.ent \in NPCs => \A b \in merged[p] : b.ent \in NPCs
       /\ merged' = [merged EXCEPT ![p] = @ \ {a}]
       /\ IF ~InStore(a.ent)
          THEN /\ pc' = "error"
               /\ UNCHANGED <<health, inventory, player_kills, executed>>
          ELSE /\ SetEffects(ActionCall(Effects, a, dmg))
               /\ executed' = Append(executed,
                    [ent |-> a.ent, atn |-> a.atn, target |-> a.target, priority |-> p,
                     alive |-> alive(health, a.ent)])
               /\ pc' = pc
  /\ UNCHANGED <<realm_tick, entities, dead, updated>>
  /\ UNCHANGED <<gold, quantity, listed_price, item_listings, listings_queue,
                 last_sell, last>>

\* One pass of the loop of Realm.step: the next pair of the shuffled bucket
RealmStepExecute ==
  /\ UNCHANGED pure_vars
  /\ pc = "exec"
  /\ Pending(merged)
  /\ LET p == NextBucket(merged) IN
     \E a \in merged[p], dmg \in 0..MaxDamage :
       /\ merged' = [merged EXCEPT ![p] = @ \ {a}]
       /\ IF ~InStore(a.ent)
          THEN /\ pc' = "error"          \* the assert of Realm.entity
               /\ UNCHANGED <<health, inventory, player_kills, executed>>
          ELSE /\ SetEffects(ActionCall(Effects, a, dmg))
               /\ executed' = Append(executed,
                    [ent |-> a.ent, atn |-> a.atn, target |-> a.target, priority |-> p,
                     alive |-> alive(health, a.ent)])
               /\ pc' = pc
  /\ UNCHANGED <<realm_tick, entities, dead, updated>>
  /\ UNCHANGED <<gold, quantity, listed_price, item_listings, listings_queue,
                 last_sell, last>>

\* players.cull(), npcs.cull(): the entities of the store that are not alive
Culled(h) == {e \in entities : ~alive(h, e)}

\* Realm.step with the dead of both culls returned
RealmStepCullAll ==
  /\ UNCHANGED pure_vars
  /\ pc = "exec"
  /\ ~Pending(merged)
  /\ dead' = Culled(health)
  /\ entities' = entities \ Culled(health)
  /\ pc' = "culled"
  /\ UNCHANGED <<realm_tick, health, merged, executed, player_kills, updated>>
  /\ UNCHANGED exchange_vars

\* Realm.step, after the loop: dead = players.cull(), npcs.cull()
RealmStepCull ==
  /\ UNCHANGED pure_vars
  /\ pc = "exec"
  /\ ~Pending(merged)
  /\ dead' = Culled(health) \cap Ents
  /\ entities' = entities \ Culled(health)
  /\ pc' = "culled"
  /\ UNCHANGED <<realm_tick, health, merged, executed, player_kills, updated>>
  /\ UNCHANGED exchange_vars

\* Realm.step with the exchange stepped at the tick after the increment
RealmStepEndTickFirst ==
  /\ UNCHANGED pure_vars
  /\ pc = "culled"
  /\ SetBook(step(Book, realm_tick + 1))
  /\ last' = [Call("step", 0, 0, 0, realm_tick + 1, "none") EXCEPT
                !.popped = SubSeq(listings_queue, 1,
                             Len(listings_queue) - Len(listings_queue')),
                !.evicted = (DOMAIN item_listings) \ (DOMAIN item_listings')]
  /\ realm_tick' = realm_tick + 1
  /\ merged' = [p \in {} |-> {}]
  /\ executed' = <<>>
  /\ updated' = FALSE
  /\ pc' = "idle"
  /\ UNCHANGED <<health, entities, dead, player_kills>>
  /\ UNCHANGED <<inventory, gold, quantity, last_sell>>

\* Realm.step, after the culls: exchange.step(tick), tick += 1, return dead
RealmStepEnd ==
  /\ UNCHANGED pure_vars
  /\ pc = "culled"
  /\ SetBook(step(Book, realm_tick))
  /\ last' = [Call("step", 0, 0, 0, realm_tick, "none") EXCEPT
                !.popped = SubSeq(listings_queue, 1,
                             Len(listings_queue) - Len(listings_queue')),
                !.evicted = (DOMAIN item_listings) \ (DOMAIN item_listings')]
  /\ realm_tick' = realm_tick + 1
  /\ merged' = [p \in {} |-> {}]      \* the locals of step are gone
  /\ executed' = <<>>
  /\ updated' = FALSE
  /\ pc' = "idle"
  /\ UNCHANGED <<health, entities, dead, player_kills>>
  /\ UNCHANGED <<inventory, gold, quantity, last_sell>>

\* The realm after reset(): no items yet, an empty exchange
RealmFresh ==
  /\ inventory = [e \in AllEnts |-> {}]
  /\ gold = [e \in Ents |-> 0]
  /\ quantity = [i \in Items |-> 1]
  /\ ExchangeInit
  /\ RealmIdle

RealmInit == RealmFresh /\ NoRuns /\ NoCombat /\ NoFight /\ NoQueries

\* The inputs of a step: the actions of the players, those of the NPCs, the damage
\* the death fog deals to each player
PlayerSubmissions == Submissions(Ents)
NPCSubmissions == Submissions(NPCs)
UpdateDamages == [Ents -> 0..MaxUpdateDamage]

RealmNext ==
  \/ /\ pc = "idle" /\ realm_tick < MaxTick
     /\ \E actions \in PlayerSubmissions, npc_actions \in NPCSubmissions,
           upd \in UpdateDamages :
          RealmStepBegin(actions, npc_actions, upd)
  \/ RealmStepExecute
  \/ RealmStepCull
  \/ RealmStepEnd

RealmSpec == RealmInit /\ [][RealmNext]_vars

\* ------------------------------------------------- realm.py: Realm.reset
\* Realm.reset(map_id): the entities are spawned anew, tick = 0, a new Exchange, no
\* item is registered
RealmReset ==
  /\ UNCHANGED pure_vars
  /\ pc \in {"idle", "error"}
  /\ realm_tick' = 0
  /\ entities' = AllEnts
  /\ health' = [e \in AllEnts |-> MaxHealth]
  /\ player_kills' = [e \in AllEnts |-> 0]
  /\ merged' = [p \in {} |-> {}]
  /\ executed' = <<>>
  /\ dead' = {}
  /\ updated' = FALSE
  /\ pc' = "idle"
  /\ inventory' = [e \in AllEnts |-> {}]
  /\ gold' = [e \in Ents |-> 0]
  /\ item_listings' = <<>>
  /\ listings_queue' = <<>>
  /\ listed_price' = [i \in Items |-> 0]
  /\ last_sell' = 0
  /\ last' = Call("reset", 0, 0, 0, 0, "none")
  /\ UNCHANGED quantity

\* The realm with its exchange in use: each player holds the item of its own id,
\* both single items
WorldInit ==
  /\ inventory = [e \in AllEnts |-> IF e \in Items THEN {e} ELSE {}]
  /\ gold = [e \in Ents |-> 0]
  /\ quantity = [i \in Items |-> 1]
  /\ ExchangeInit
  /\ RealmIdle
  /\ NoRuns
  /\ NoCombat
  /\ NoFight
  /\ NoQueries

\* The submissions that hold Attack actions against players alone
PlayerAttacks ==
  {A \in PlayerSubmissions : \A a \in A : a.atn = "Attack" /\ a.target \in Ents}
NPCAttacks ==
  {A \in NPCSubmissions : \A a \in A : a.atn = "Attack" /\ a.target \in Ents}

\* Between two steps a player lists an item at the current tick
WorldSell(seller, item, price) ==
  /\ pc = "idle"
  /\ item \in inventory[seller]
  /\ price > 0
  /\ Sell(seller, item, price, realm_tick)

WorldNext ==
  \/ /\ pc = "idle"
     /\ \E s \in Ents, i \in Items, p \in Prices : WorldSell(s, i, p)
  \/ /\ pc = "idle" /\ realm_tick < MaxTick
     /\ \E actions \in PlayerAttacks, npc_actions \in NPCAttacks,
           upd \in UpdateDamages :
          RealmStepBegin(actions, npc_actions, upd)
  \/ RealmStepExecute
  \/ RealmStepCull
  \/ RealmStepEnd
  \/ RealmReset

WorldSpec == WorldInit /\ [][WorldNext]_vars

\* ------------------------------------------- the random generators
\* A generator is its state; a draw reads the state and advances it
RngStates == 0..(RngPeriod - 1)
Advance(g) == (g + 1) % RngPeriod

\* np.random.default_rng(map_id): the state is a function of the seed
default_rng(map_id) == map_id % RngPeriod

\* randint(low, high): an integer of low..high-1; rand() by the quarter of [0, 1) it
\* falls in, 0..3
randint(g, low, high) == low + (g % (high - low))
rand(g) == g % 4

\* rng.shuffle(list): the list rotated by a draw
shuffle(g, list) ==
  LET k == g % Len(list)
  IN  SubSeq(list, k + 1, Len(list)) \o SubSeq(list, 1, k)

\* config.MAP_BORDER, config.MAP_CENTER, scaled down
MAP_BORDER == 1
MAP_CENTER == 4

\* combat.spawn(config, dnger), with dist = dnger * center / 2; g is the state of
\* the generator of the module np.random, which the two draws advance
spawn(g, dist) ==
  LET border     == MAP_BORDER
      center     == MAP_CENTER
      mid        == center \div 2
      max_offset == mid - dist
      offset     == mid + border + randint(g, -max_offset, max_offset)
      rng        == rand(Advance(g))
  IN  IF rng = 0 THEN <<border + dist, offset>>
      ELSE IF rng = 1 THEN <<border + center - dist - 1, offset>>
      ELSE IF rng = 2 THEN <<offset, border + dist>>
      ELSE <<offset, border + center - dist - 1>>

\* The distances from the border an entity is spawned at (max_offset > 0)
SpawnDists == 0..((MAP_CENTER \div 2) - 1)

\* The buckets of one priority a step shuffles: the ids that submitted the actions
Buckets == {<<1, 2>>, <<-1, 1, 2>>}

Runs == {1, 2}

\* Realm.__init__ of run r: self.rng = default_rng() takes its state from the
\* system; so does the generator of np.random
RunsInit ==
  /\ runs \in [Runs -> [seed : {None}, danger : {0}, rng : RngStates, global : RngStates,
                        pos : {<<>>}, inputs : {<<>>}, orders : {<<>>}]]

\* Realm.reset(map_id) of run r: the generator of the realm is seeded with map_id,
\* then npcs.spawn() places an NPC with combat.spawn
RunReset(r, map_id, dist) ==
  /\ runs' = [runs EXCEPT ![r] =
                [seed   |-> map_id,
                 danger |-> dist,
                 rng    |-> default_rng(map_id),
                 global |-> Advance(Advance(@.global)),
                 pos    |-> spawn(@.global, dist),
                 inputs |-> <<>>,
                 orders |-> <<>>]]
  /\ UNCHANGED <<exchange_vars, realm_vars, combat, fight, query_vars>>

\* Realm.step of run r on a bucket: self.rng.shuffle(merged[priority])
RunStep(r, bucket) ==
  /\ runs[r].seed # None
  /\ Len(runs[r].inputs) < MaxTick
  /\ runs' = [runs EXCEPT ![r] =
                [@ EXCEPT !.rng    = Advance(@),
                          !.inputs = Append(@, bucket),
                          !.orders = Append(@, shuffle(runs[r].rng, bucket))]]
  /\ UNCHANGED <<exchange_vars, realm_vars, combat, fight, query_vars>>

RunsSpecInit == RealmFresh /\ RunsInit /\ NoCombat /\ NoFight /\ NoQueries

RunsNext ==
  \/ \E r \in Runs, map_id \in 1..MaxMaps, dist \in SpawnDists : RunReset(r, map_id, dist)
  \/ \E r \in Runs, bucket \in Buckets : RunStep(r, bucket)

RunsSpec == RunsSpecInit /\ [][RunsNext]_vars

\* ---------------------------------------------------------------- combat.py
\* The combat styles in the order damage_multiplier lists them: melee, range, mage
Styles == <<"Melee", "Range", "Mage">>
StyleSet == {Styles[k] : k \in 1..Len(Styles)}

\* skill.weakness: the style each style is weak to
weakness == [s \in StyleSet |->
               IF s = "Melee" THEN "Range" ELSE IF s = "Range" THEN "Mage" ELSE "Melee"]

\* Multipliers and formula values are counted in tenths: 1.0 is Tenths
Tenths == 10
\* config.COMBAT_WEAKNESS_MULTIPLIER: 1.5
COMBAT_WEAKNESS_MULTIPLIER == 15

\* config.COMBAT_<STYLE>_DAMAGE, config.PROGRESSION_<STYLE>_BASE_DAMAGE,
\* config.PROGRESSION_<STYLE>_LEVEL_DAMAGE
COMBAT_DAMAGE == [s \in StyleSet |->
                    IF s = "Melee" THEN 50 ELSE IF s = "Range" THEN 40 ELSE 30]
PROGRESSION_BASE_DAMAGE == [s \in StyleSet |->
                              IF s = "Melee" THEN 0 ELSE IF s = "Range" THEN 1 ELSE 2]
PROGRESSION_LEVEL_DAMAGE == [s \in StyleSet |->
                               IF s = "Melee" THEN 5 ELSE IF s = "Range" THEN 6 ELSE 7]
\* config.PROGRESSION_BASE_DEFENSE, config.PROGRESSION_LEVEL_DEFENSE
PROGRESSION_BASE_DEFENSE == 2
PROGRESSION_LEVEL_DEFENSE == 3

\* max(...), min(...)
Max(S) == CHOOSE x \in S : \A y \in S : x >= y
Min(S) == CHOOSE x \in S : \A y \in S : x <= y

\* level(skills) as the lowest level of the skills
LevelMin(levels) == Min({levels[s] : s \in DOMAIN levels})

\* level(skills): the highest level of the skills
level(levels) == Max({levels[s] : s \in DOMAIN levels})

\* np.argmax with ties resolved to the last index
ArgmaxLast(list) ==
  CHOOSE k \in 1..Len(list) :
    /\ \A j \in 1..Len(list) : list[k] >= list[j]
    /\ \A j \in (k + 1)..Len(list) : list[j] < list[k]

\* np.argmax([exp]): the index of the first highest value
argmax(list) ==
  CHOOSE k \in 1..Len(list) :
    /\ \A j \in 1..Len(list) : list[k] >= list[j]
    /\ \A j \in 1..(k - 1) : list[j] < list[k]

\* damage_multiplier(config, skill, targ): skill is the attacker's style, exp the
\* experience of the target in each style
damage_multiplier(skill, exp) ==
  LET list == [k \in 1..Len(Styles) |-> exp[Styles[k]]]
      all  == {list[k] : k \in 1..Len(Styles)}
  IN  IF Max(all) = Min(all) THEN Tenths
      ELSE LET targ == Styles[argmax(list)]
           IN  IF skill = weakness[targ] THEN COMBAT_WEAKNESS_MULTIPLIER ELSE Tenths

\* config.COMBAT_DAMAGE_FORMULA(offense, defense, multiplier), in tenths: the
\* default formula, and one that ignores the defense
Formulas == {"default", "offense"}
COMBAT_DAMAGE_FORMULA(f, offense, defense, multiplier) ==
  IF f = "default" THEN multiplier * (offense - defense) ELSE multiplier * offense

\* int(damage): the tenths are cut off, towards zero
int(v) == IF v >= 0 THEN v \div Tenths ELSE -((-v) \div Tenths)

\* int(damage) without the max
DamageUnclamped(v) == int(v)

\* damage = max(int(damage), 0)
Damage(v) == IF int(v) > 0 THEN int(v) ELSE 0

\* The equipment totals by style: player.equipment.total(offense_fn),
\* target.equipment.total(defense_fn)
EquipAttacks ==
  {[s \in StyleSet |-> 0],
   [s \in StyleSet |-> IF s = "Melee" THEN 1 ELSE IF s = "Range" THEN 2 ELSE 3]}
EquipDefenses ==
  {[s \in StyleSet |-> 0],
   [s \in StyleSet |-> IF s = "Melee" THEN 20 ELSE IF s = "Range" THEN 21 ELSE 22],
   [s \in StyleSet |-> IF s = "Melee" THEN 60 ELSE IF s = "Range" THEN 61 ELSE 62]}

\* What combat.attack reads: the attacker's style and the level of that skill, the
\* target's experience and level in each style, the equipment totals of both, the
\* configuration
AttackInputs ==
  [skill : StyleSet, level : 1..MaxLevel,
   exp : [StyleSet -> 0..MaxExp], levels : [StyleSet -> 1..MaxLevel],
   attack : EquipAttacks, defense : EquipDefenses,
   PROGRESSION_SYSTEM_ENABLED : BOOLEAN, EQUIPMENT_SYSTEM_ENABLED : BOOLEAN,
   formula : Formulas]

\* combat.attack(realm, player, target, skillFn): the inputs with the locals, the
\* damage passed to player.apply_damage and to target.receive_damage, and the result
attack(in) ==
  LET base_damage  == IF in.PROGRESSION_SYSTEM_ENABLED
                      THEN PROGRESSION_BASE_DAMAGE[in.skill]
                      ELSE COMBAT_DAMAGE[in.skill]
      level_damage == IF in.PROGRESSION_SYSTEM_ENABLED
                      THEN PROGRESSION_LEVEL_DAMAGE[in.skill]
                      ELSE 0
      multiplier    == damage_multiplier(in.skill, in.exp)
      skill_offense == base_damage + level_damage * in.level
      skill_defense == IF in.PROGRESSION_SYSTEM_ENABLED
                       THEN PROGRESSION_BASE_DEFENSE
                              + PROGRESSION_LEVEL_DEFENSE * level(in.levels)
                       ELSE 0
      equipment_offense == IF in.EQUIPMENT_SYSTEM_ENABLED THEN in.attack[in.skill] ELSE 0
      equipment_defense == IF in.EQUIPMENT_SYSTEM_ENABLED THEN in.defense[in.skill] ELSE 0
      offense == skill_offense + equipment_offense
      defense == skill_defense + equipment_defense
      damage  == Damage(COMBAT_DAMAGE_FORMULA(in.formula, offense, defense, multiplier))
  IN  [in |-> in, multiplier |-> multiplier, offense |-> offense, defense |-> defense,
       damage |-> damage, inflicted |-> damage, received |-> damage, returned |-> damage]

\* combat.attack has been called and has returned
Attacked == "returned" \in DOMAIN combat

\* A call of combat.attack on the inputs drawn
CombatAttack ==
  /\ ~Attacked
  /\ combat' = attack(combat.in)
  /\ UNCHANGED <<exchange_vars, realm_vars, runs, fight, query_vars>>

CombatInit ==
  RealmFresh /\ NoRuns /\ NoFight /\ NoQueries /\ combat \in [in : AttackInputs]

CombatNext == CombatAttack

CombatSpec == CombatInit /\ [][CombatNext]_vars

\* ------------------------------------ combat.attack and Player.update in sequence
\* The units of ammunition a player has equipped at most, the calls followed
MaxAmmo == 2
MaxCalls == 3

\* Ammunition.fire(player): one unit of the equipped ammunition is used up
fire(f, player) == [f EXCEPT !.ammunition[player] = @ - 1]

\* The ammunition usage of combat.attack without the test for None
UseAmmunitionUnchecked(f, player) ==
  IF f.EQUIPMENT_SYSTEM_ENABLED THEN fire(f, player) ELSE f

\* combat.attack, "Ammunition usage": player.equipment.ammunition.item is None when
\* the player has no ammunition equipped (0 units)
UseAmmunition(f, player) ==
  IF f.EQUIPMENT_SYSTEM_ENABLED
  THEN IF f.ammunition[player] # 0 THEN fire(f, player) ELSE f
  ELSE f

\* Entity.apply_damage(dmg, style): the attacker's history.damage_inflicted
apply_damage(f, player, dmg) == [f EXCEPT !.damage_inflicted[player] = @ + dmg]

FightCall(op, ent, target, dmg) == [op |-> op, ent |-> ent, target |-> target, dmg |-> dmg]

\* combat.attack(realm, player, target, skillFn), dmg the damage it computed: the
\* ammunition is used, then player.apply_damage and target.receive_damage are called
FightAttack(player, target, dmg) ==
  /\ fight.err = "none"
  /\ fight.n < MaxCalls
  /\ LET f1 == UseAmmunition(fight, player)
         f2 == apply_damage(f1, player, dmg)
         f3 == receive_damage(f2, target, player, dmg)
     IN  fight' = [f3 EXCEPT !.n = @ + 1, !.last = FightCall("attack", player, target, dmg)]
  /\ UNCHANGED <<exchange_vars, realm_vars, runs, combat, query_vars>>

\* Player.update(realm, actions) of a player the death fog deals dmg to
FightUpdate(self, dmg) ==
  /\ fight.err = "none"
  /\ fight.n < MaxCalls
  /\ fight' = [receive_damage(fight, self, None, dmg) EXCEPT
                 !.n = @ + 1, !.last = FightCall("update", self, 0, dmg)]
  /\ UNCHANGED <<exchange_vars, realm_vars, runs, combat, query_vars>>

\* Two players at full health, each holding the item of its own id, with any
\* ammunition equipped; config.IMMORTAL and config.EQUIPMENT_SYSTEM_ENABLED either way
FightInit ==
  /\ RealmFresh /\ NoRuns /\ NoCombat /\ NoQueries
  /\ \E eq \in BOOLEAN, imm \in BOOLEAN, ammo \in [Ents -> 0..MaxAmmo] :
       fight = [EQUIPMENT_SYSTEM_ENABLED |-> eq,
                immortal         |-> [e \in Ents |-> imm],
                health           |-> [e \in Ents |-> MaxHealth],
                inventory        |-> [e \in Ents |-> {e}],
                kills            |-> [e \in Ents |-> 0],
                ammunition       |-> ammo,
                damage_inflicted |-> [e \in Ents |-> 0],
                err              |-> "none",
                n                |-> 0,
                last             |-> FightCall("init", 0, 0, 0)]

FightNext ==
  \/ \E player \in Ents : \E target \in Ents \ {player}, dmg \in 0..MaxDamage :
       FightAttack(player, target, dmg)
  \/ \E self \in Ents, dmg \in 0..MaxUpdateDamage : FightUpdate(self, dmg)

FightSpec == FightInit /\ [][FightNext]_vars

\* -------------------------------------------- exchange.py: Exchange.packet
\* The listings the exchange holds at most when packet is read
MaxListings == 3

\* The keys f'{item.__class__.__name__}_{item.level.val}' of the items listed
ItemKeys == {"Ration_1", "Ration_2"}

\* self._item_listings.values(), in the order of the dict: for each listing the key
\* of its item, listing.price and item.quantity.val
PacketListings ==
  UNION {[1..n -> [key : ItemKeys, price : Prices, quantity : 1..MaxQuantity]] :
           n \in 0..MaxListings}

\* The 'price' field, (max_price + min_price) / 2, is counted in halves
Halves == 2

\* One pass of the body of the loop of packet, up to the return: the entry of the
\* listing's key is made from the entry the key had, if any
PacketEntry(pk, listing) ==
  LET key       == listing.key
      had       == key \in DOMAIN pk
      max_price == IF had THEN Max({pk[key].max_price, listing.price}) ELSE listing.price
      min_price == IF had THEN Min({pk[key].min_price, listing.price}) ELSE listing.price
      supply    == (IF had THEN pk[key].supply ELSE 0) + listing.quantity
  IN  DictPut(pk, key, [max_price |-> max_price, min_price |-> min_price,
                        price |-> max_price + min_price, supply |-> supply])

\* What a call returns: a dict, or None when the function ends without a return
Returned(v) == [none |-> FALSE, value |-> v]
ReturnedNone == [none |-> TRUE, value |-> <<>>]

\* Exchange.packet: the return statement is in the body of the loop, so the first
\* pass returns; without a listing the body never runs
packet(listings) ==
  IF listings = <<>> THEN ReturnedNone
  ELSE Returned(PacketEntry(<<>>, listings[1]))

\* packet has been read
Packed == "returned" \in DOMAIN summary

\* A read of Exchange.packet on the listings drawn
PacketCall ==
  /\ ~Packed
  /\ summary' = [listings |-> summary.listings, returned |-> packet(summary.listings)]
  /\ UNCHANGED <<exchange_vars, realm_vars, runs, combat, fight, tasks, expr, helper, hazard>>

PacketInit ==
  /\ RealmFresh /\ NoRuns /\ NoCombat /\ NoFight /\ NoTasks /\ NoExpr /\ NoHelper /\ NoHazard
  /\ summary \in [listings : PacketListings]

PacketNext == PacketCall

PacketSpec == PacketInit /\ [][PacketNext]_vars

\* ------------------------------------------------- nmmo/lib/task.py: tasks
\* The rewards, discount factors and finite maximum completions tasks are made with,
\* the calls of reward followed
MaxReward == 2
MaxDiscount == 2
MaxCompletion == 1
MaxRewardCalls == 4

\* math.inf, the default of maximum_completion: above every completion count
inf == 1000

\* The agents and the population (team) each belongs to: agent.population_id.val
Agents == {1, 2, 3, 4}
population_id == [a \in Agents |-> (a - 1) \div 2]

\* The task classes: TRUE, FALSE, and a PredicateTask whose evaluate depends on the
\* game state
TaskClasses == {"TRUE", "FALSE", "PredicateTask"}

\* evaluate(gs) of a task of class c: the values it can return
evaluate(c) == IF c = "TRUE" THEN {TRUE} ELSE IF c = "FALSE" THEN {FALSE} ELSE BOOLEAN

\* x ** k
RECURSIVE Pow(_, _)
Pow(x, k) == IF k = 0 THEN 1 ELSE x * Pow(x, k - 1)

\* PredicateTask.reward with the count before the increment as the exponent's base
\* count + 1
RewardDiscountsFirst(t, count, ev) ==
  IF t._maximum_completion < count THEN [returned |-> 0, count |-> count]
  ELSE IF ev THEN [returned |-> t._reward * Pow(t._discount_factor, count + 1),
                   count |-> count + 1]
  ELSE [returned |-> 0, count |-> count]

\* PredicateTask.reward(gs) of a task t at completion count count, ev the value of
\* evaluate(gs): the value returned and the completion count left
reward(t, count, ev) ==
  IF t._maximum_completion < count THEN [returned |-> 0, count |-> count]
  ELSE IF ev THEN [returned |-> t._reward * Pow(t._discount_factor, (count + 1) - 1),
                   count |-> count + 1]
  ELSE [returned |-> 0, count |-> count]

\* Task.generate(agent) for every task: a deep copy of the task, the agent's own
GenerateCopy(t, agent) == <<"agent", agent>>

\* generate(agent): Task.generate returns a deep copy of the task, the agent's own;
\* TeamTask.generate returns the instance of the agent's team, made on first use
generate(t, agent) ==
  IF t.team_task THEN <<"team", population_id[agent]>> ELSE <<"agent", agent>>

\* generate(agent) is called for an agent that has no task yet; a new instance
\* starts at completion count 0
TaskGenerate(agent) ==
  /\ agent \notin DOMAIN tasks.task
  /\ LET i == generate(tasks, agent) IN
       tasks' = [tasks EXCEPT
                   !.task = DictPut(@, agent, i),
                   !._completion_count =
                      IF i \in DOMAIN @ THEN @ ELSE DictPut(@, i, 0)]
  /\ UNCHANGED <<exchange_vars, realm_vars, runs, combat, fight, summary, expr, helper, hazard>>

\* reward(gs) is called on the task of an agent; the log of the agent takes the
\* completion count the call found, the value of evaluate(gs), the value returned
\* and the completion count left
TaskReward(agent, ev) ==
  /\ agent \in DOMAIN tasks.task
  /\ tasks.n < MaxRewardCalls
  /\ LET i == tasks.task[agent]
         r == reward(tasks, tasks._completion_count[i], ev)
     IN  tasks' = [tasks EXCEPT
                     !._completion_count[i] = r.count,
                     !.log[agent] = Append(@, [seen |-> tasks._completion_count[i],
                                               ev |-> ev, returned |-> r.returned,
                                               left |-> r.count]),
                     !.n = @ + 1]
  /\ UNCHANGED <<exchange_vars, realm_vars, runs, combat, fight, summary, expr, helper, hazard>>

\* A task of any class and arguments, decorated with team_task or not, that no
\* agent has been given yet
TaskInit ==
  /\ RealmFresh /\ NoRuns /\ NoCombat /\ NoFight /\ NoSummary /\ NoExpr /\ NoHelper /\ NoHazard
  /\ \E c \in TaskClasses, r \in 1..MaxReward, d \in 0..MaxDiscount,
        m \in (0..MaxCompletion) \cup {inf}, team \in BOOLEAN :
       tasks = [class |-> c, _reward |-> r, _discount_factor |-> d,
                _maximum_completion |-> m, team_task |-> team,
                task |-> <<>>, _completion_count |-> <<>>,
                log |-> [a \in Agents |-> <<>>], n |-> 0]

TaskNext ==
  \/ \E agent \in Agents : TaskGenerate(agent)
  \/ \E agent \in Agents : \E ev \in evaluate(tasks.class) : TaskReward(agent, ev)

TaskSpec == TaskInit /\ [][TaskNext]_vars

\* ------------- nmmo/lib/task.py, nmmo/lib/task/proposition.py: combinations
\* The operands AND and OR are given at most
MaxOperands == 3

\* The two modules that define the combinations
Modules == {"task", "proposition"}

\* A task: its class and the tasks it is made of
Node(class, ts) == [class |-> class, tasks |-> ts]

\* The tasks that are no combinations: TRUE and FALSE of the module, and the tasks
\* Success and Failure of the tests, whose evaluate returns True and False
Leaves == {Node(c, <<>>) : c \in {"TRUE", "FALSE", "Success", "Failure"}}

\* evaluate of a task that is no combination; FALSE.evaluate of proposition.py
\* returns True
EvaluateLeaf(module, class) ==
  IF class \in {"TRUE", "Success"} THEN TRUE
  ELSE IF class = "FALSE" THEN module = "proposition"
  ELSE FALSE

\* all(list), any(list)
all(list) == \A k \in 1..Len(list) : list[k]
any(list) == \E k \in 1..Len(list) : list[k]

\* The evaluate methods of the combinations, on what their operands evaluate to
AND(vals) == all(vals)
OR(vals) == any(vals)
NOT(val) == ~val

\* IMPLY.evaluate as the converse, q implies p
ImplyConverse(p, q) == IF q /\ ~p THEN FALSE ELSE TRUE

IMPLY(p, q) == IF p /\ ~q THEN FALSE ELSE TRUE

\* t.evaluate(...) of a task of the module
RECURSIVE EvaluateTask(_, _)
EvaluateTask(module, t) ==
  LET vals == [k \in 1..Len(t.tasks) |-> EvaluateTask(module, t.tasks[k])]
  IN  IF t.class = "AND" THEN AND(vals)
      ELSE IF t.class = "OR" THEN OR(vals)
      ELSE IF t.class = "NOT" THEN NOT(vals[1])
      ELSE IF t.class = "IMPLY" THEN IMPLY(vals[1], vals[2])
      ELSE EvaluateLeaf(module, t.class)

\* The operator methods of the base class
__and__(self, other) == Node("AND", <<self, other>>)
__or__(self, other) == Node("OR", <<self, other>>)
__invert__(self) == Node("NOT", <<self>>)
__rshift__(self, other) == Node("IMPLY", <<self, other>>)

\* The operators the base class of the module defines: PredicateTask of task.py
\* defines &, |, ~ and >>, Task of proposition.py defines &, | and ~
Defines(module, op) == op \in {"&", "|", "~"} \/ (op = ">>" /\ module = "task")

\* The ways to combine and the number of operands each takes
Constructors == {"AND", "OR", "NOT", "IMPLY"}
Operators == {"&", "|", "~", ">>"}
Arities(op) ==
  IF op \in {"AND", "OR"} THEN 1..MaxOperands
  ELSE IF op \in {"NOT", "~"} THEN {1}
  ELSE {2}

\* The task a constructor call or an operator builds from the operands
Build(op, ts) ==
  IF op \in Constructors THEN Node(op, ts)
  ELSE IF op = "&" THEN __and__(ts[1], ts[2])
  ELSE IF op = "|" THEN __or__(ts[1], ts[2])
  ELSE IF op = "~" THEN __invert__(ts[1])
  ELSE __rshift__(ts[1], ts[2])

\* The operands: tasks that are no combinations, and their negations
Operands == Leaves \cup {Node("NOT", <<l>>) : l \in Leaves}

ExprInputs ==
  UNION {[module : Modules, op : {op}, operands : [1..n -> Operands]] :
           op \in Constructors \cup Operators, n \in 0..MaxOperands}

\* The combination has been built and evaluated
Evaluated == "err" \in DOMAIN expr

\* The operands are combined and the combination is evaluated: the operands and
\* the combination are evaluated on one game state; an operator the base class does
\* not define raises TypeError
ExprEvaluate ==
  /\ ~Evaluated
  /\ LET in   == expr.in
         vals == [k \in 1..Len(in.operands) |-> EvaluateTask(in.module, in.operands[k])]
     IN  IF in.op \in Operators /\ ~Defines(in.module, in.op)
         THEN expr' = [in |-> in, vals |-> vals, task |-> Node("None", <<>>),
                       value |-> FALSE, err |-> "TypeError"]
         ELSE LET t == Build(in.op, in.operands)
              IN  expr' = [in |-> in, vals |-> vals, task |-> t,
                           value |-> EvaluateTask(in.module, t), err |-> "none"]
  /\ UNCHANGED <<exchange_vars, realm_vars, runs, combat, fight, summary, tasks, helper, hazard>>

\* Any way to combine with any operands of its arity (AND and OR assert that they
\* are given at least one)
ExprInit ==
  /\ RealmFresh /\ NoRuns /\ NoCombat /\ NoFight /\ NoSummary /\ NoTasks /\ NoHelper /\ NoHazard
  /\ expr \in [in : {in \in ExprInputs : Len(in.operands) \in Arities(in.op)}]

ExprNext == ExprEvaluate

ExprSpec == ExprInit /\ [][ExprNext]_vars

\* ------------------------------- nmmo/lib/task/task.py, sampler.py: TeamHelper
\* The agents and the teams a TeamHelper is given at most
MaxAgents == 4
MaxTeams == 3

\* The agent lists: the ids of distinct agents in any order
AgentLists ==
  UNION {{l \in [1..n -> 1..MaxAgents] : \A j, k \in 1..n : l[j] = l[k] => j = k} :
           n \in 0..MaxAgents}

\* EntityTarget(name, agents)
EntityTarget(name, agents) == [name |-> name, agents |-> agents]

\* agents[lo : hi], with 0 <= lo <= hi <= len(agents)
Slice(agents, lo, hi) == [k \in 1..(hi - lo) |-> agents[lo + k]]

\* TeamHelper.__init__ past the assertion: _teams, from index 0, and _agent_to_team
TeamHelper(agents, num_teams) ==
  LET team_size == Len(agents) \div num_teams
      teams == [i \in 0..(num_teams - 1) |->
                  Slice(agents, i * team_size, (i + 1) * team_size)]
  IN  [team_size |-> team_size, _teams |-> teams,
       _agent_to_team |->
         [a \in {agents[k] : k \in 1..Len(agents)} |->
            CHOOSE tid \in 0..(num_teams - 1) :
              \E k \in 1..Len(teams[tid]) : teams[tid][k] = a],
       keys |-> agents]

\* len(self._teams)
NumTeams(h) == Cardinality(DOMAIN h._teams)

own_team(h, agent_id) == EntityTarget("Team.Self", h._teams[h._agent_to_team[agent_id]])

left_team(h, agent_id) ==
  EntityTarget("Team.Left", h._teams[(h._agent_to_team[agent_id] - 1) % NumTeams(h)])

\* right_team that stays at the last team
RightTeamClamped(h, agent_id) ==
  LET tid == h._agent_to_team[agent_id]
  IN  EntityTarget("Team.Right",
                   h._teams[IF tid + 1 < NumTeams(h) THEN tid + 1 ELSE tid])

right_team(h, agent_id) ==
  EntityTarget("Team.Right", h._teams[(h._agent_to_team[agent_id] + 1) % NumTeams(h)])

\* TeamHelper.all: the keys of _agent_to_team, in the order they were inserted
All(h) == EntityTarget("All", h.keys)

\* The helper has been constructed
Constructed == helper.state = "constructed"

\* TeamHelper(agents, num_teams)
HelperConstruct ==
  /\ helper.state = "new"
  /\ IF Len(helper.agents) % helper.num_teams # 0
     THEN helper' = [helper EXCEPT !.state = "AssertionError"]
     ELSE helper' = [helper EXCEPT !.state = "constructed",
                                   !.self = TeamHelper(helper.agents, helper.num_teams)]
  /\ UNCHANGED <<exchange_vars, realm_vars, runs, combat, fight, summary, tasks, expr, hazard>>

\* own_team, left_team and right_team of an agent of the helper; what they return
\* is kept
HelperTeams(agent_id) ==
  /\ Constructed
  /\ agent_id \in DOMAIN helper.self._agent_to_team
  /\ agent_id \notin DOMAIN helper.own
  /\ helper' = [helper EXCEPT
       !.own = agent_id :> own_team(helper.self, agent_id) @@ @,
       !.left = agent_id :> left_team(helper.self, agent_id) @@ @,
       !.right = agent_id :> right_team(helper.self, agent_id) @@ @]
  /\ UNCHANGED <<exchange_vars, realm_vars, runs, combat, fight, summary, tasks, expr, hazard>>

\* all(); what it returns is kept
HelperAll ==
  /\ Constructed
  /\ helper.all = <<>>
  /\ helper' = [helper EXCEPT !.all = <<All(helper.self)>>]
  /\ UNCHANGED <<exchange_vars, realm_vars, runs, combat, fight, summary, tasks, expr, hazard>>

\* Any agent list and any number of teams
HelperInit ==
  /\ RealmFresh /\ NoRuns /\ NoCombat /\ NoFight /\ NoSummary /\ NoTasks /\ NoExpr /\ NoHazard
  /\ helper \in [agents : AgentLists, num_teams : 1..MaxTeams, state : {"new"},
                  self : {<<>>}, own : {<<>>}, left : {<<>>}, right : {<<>>},
                  all : {<<>>}]

HelperNext ==
  \/ HelperConstruct
  \/ \E agent_id \in 1..MaxAgents : HelperTeams(agent_id)
  \/ HelperAll

HelperSpec == HelperInit /\ [][HelperNext]_vars

\* --------------------------------------- player.py: Player.update, death fog
\* The side of the square the players live in, the ticks, the first tick of the
\* fog, its speed and its final size
MaxCenter == 22
MaxFogTick == 11
MaxFog == 1
MaxSpeed == 2
MaxFinalSize == 1

\* A configuration value that is set, and one that is None
Set(x) == <<x>>
Unset == <<>>

\* The configurations: PLAYER_DEATH_FOG a tick or None
FogConfigs ==
  [PLAYER_DEATH_FOG : {Unset} \cup {Set(t) : t \in 0..MaxFog},
   PLAYER_DEATH_FOG_SPEED : 0..MaxSpeed,
   PLAYER_DEATH_FOG_FINAL_SIZE : 0..MaxFinalSize,
   MAP_BORDER : {MAP_BORDER},
   MAP_CENTER : {MaxCenter}]

\* The tiles a player can stand on: the square inside the border
Tiles(config) ==
  LET side == config.MAP_BORDER..(config.MAP_BORDER + config.MAP_CENTER - 1)
  IN  side \X side

abs(x) == IF x < 0 THEN -x ELSE x

\* The fog of Player.update with the time damage of tick - fog ticks
FogDamageFromZero(config, tick, pos) ==
  LET fog == config.PLAYER_DEATH_FOG IN
  IF fog # Unset /\ tick >= fog[1]
  THEN LET cent == config.MAP_BORDER + config.MAP_CENTER \div 2
           dist == Max({abs(pos[1] - cent), abs(pos[2] - cent)})
       IN  IF dist > config.PLAYER_DEATH_FOG_FINAL_SIZE
           THEN LET time_dmg == config.PLAYER_DEATH_FOG_SPEED * (tick - fog[1])
                    dist_dmg == dist - config.MAP_CENTER \div 2
                IN  <<Max({0, dist_dmg + time_dmg})>>
           ELSE <<>>
  ELSE <<>>

\* The fog of Player.update: the damages it passes to receive_damage(None, dmg),
\* one or none
FogDamage(config, tick, pos) ==
  LET fog == config.PLAYER_DEATH_FOG IN
  IF fog # Unset /\ tick >= fog[1]
  THEN LET cent == config.MAP_BORDER + config.MAP_CENTER \div 2
           dist == Max({abs(pos[1] - cent), abs(pos[2] - cent)})
       IN  IF dist > config.PLAYER_DEATH_FOG_FINAL_SIZE
           THEN LET time_dmg == config.PLAYER_DEATH_FOG_SPEED * (tick - fog[1] + 1)
                    dist_dmg == dist - config.MAP_CENTER \div 2
                IN  <<Max({0, dist_dmg + time_dmg})>>
           ELSE <<>>
  ELSE <<>>

\* Player.update has run
FogUpdated == "applied" \in DOMAIN hazard

\* Player.update(realm, actions) of a player at pos, at realm.tick
PlayerUpdate ==
  /\ ~FogUpdated
  /\ hazard' = [config |-> hazard.config, tick |-> hazard.tick, pos |-> hazard.pos,
                applied |-> FogDamage(hazard.config, hazard.tick, hazard.pos)]
  /\ UNCHANGED <<exchange_vars, realm_vars, runs, combat, fight, summary, tasks, expr,
                 helper>>

\* Any configuration, any tick, a player on any tile
FogInit ==
  /\ RealmFresh /\ NoRuns /\ NoCombat /\ NoFight
  /\ NoSummary /\ NoTasks /\ NoExpr /\ NoHelper
  /\ \E config \in FogConfigs :
       hazard \in [config : {config}, tick : 0..MaxFogTick, pos : Tiles(config)]

FogNext == PlayerUpdate

FogSpec == FogInit /\ [][FogNext]_vars

\* ------------------------------------------------------------ properties
Listed(i) == i \in DOMAIN item_listings
Duration == EXCHANGE_LISTING_DURATION
BookUnchanged == UNCHANGED <<item_listings, listings_queue, listed_price>>

\* C1: for every item, listed_price is non-zero if and only if the exchange holds
\* an active listing keyed by the item's id.
ListingInvariant == \A i \in Items : (listed_price[i] # 0) <=> Listed(i)

\* C2: a buy whose preconditions all hold removes the listing, moves the item from
\* the seller's inventory to the buyer's, and moves exactly the listed price in gold
\* from the buyer to the seller.
BuyTransfersPrice ==
  [][\A b \in Ents, i \in Items :
       ( /\ last'.op = "buy" /\ last'.ent = b /\ last'.item = i
         /\ Listed(i) /\ quantity[i] = 1
         /\ Cardinality(inventory[b]) < ITEM_INVENTORY_CAPACITY
         /\ gold[b] >= listed_price[i]
         /\ item_listings[i].seller # b )
       => LET seller == item_listings[i].seller
              price  == item_listings[i].price
          IN  /\ ~Listed(i)'
              /\ i \in inventory'[b] /\ i \notin inventory'[seller]
              /\ gold'[b] = gold[b] - price
              /\ gold'[seller] = gold[seller] + price]_vars

\* C3: a buy either transfers in full (the listing is removed, the item moves to
\* the buyer, the price moves in gold from the buyer to the seller) or changes
\* nothing.
BuyIsAtomic ==
  [][\A b \in Ents, i \in Items :
       ( /\ last'.op = "buy" /\ last'.ent = b /\ last'.item = i
         /\ Listed(i) )
       => LET seller == item_listings[i].seller
              price  == item_listings[i].price
          IN  \/ /\ BookUnchanged
                 /\ UNCHANGED <<inventory, gold, quantity>>
              \/ /\ ~Listed(i)'
                 /\ i \in inventory'[b]
                 /\ (seller # b => i \notin inventory'[seller])
                 /\ gold' = [e \in Ents |->
                              gold[e] - (IF e = b THEN price ELSE 0)
                                      + (IF e = seller THEN price ELSE 0)]]_vars

\* The half of C3 about a failed precondition: a buy of a listed item by a buyer
\* without inventory space, or with gold below the listed price, changes neither the
\* listings, the expiry queue, the listed price, the inventories nor the gold.
BuyFailedPreconditionChangesNothing ==
  [][\A b \in Ents, i \in Items :
       ( /\ last'.op = "buy" /\ last'.ent = b /\ last'.item = i
         /\ Listed(i)
         /\ \/ Cardinality(inventory[b]) >= ITEM_INVENTORY_CAPACITY
            \/ gold[b] < listed_price[i] )
       => /\ BookUnchanged
          /\ UNCHANGED <<inventory, gold, quantity>>]_vars

\* A buy returned silently because the buyer, who has space, cannot pay the price
\* of the listing, which is still there.
BuyFailedPreconditionWitness ==
  /\ last.op = "buy" /\ last.err = "none"
  /\ Listed(last.item)
  /\ Cardinality(inventory[last.ent]) < ITEM_INVENTORY_CAPACITY
  /\ gold[last.ent] < listed_price[last.item]

\* C4: a buy of an item that has no listing, or of a listed item whose quantity is
\* not 1, raises no error and changes no state.
BuyMissOrStackIsSilent ==
  [][\A b \in Ents, i \in Items :
       ( /\ last'.op = "buy" /\ last'.ent = b /\ last'.item = i
         /\ (~Listed(i) \/ quantity[i] # 1) )
       => /\ last'.err = "none"
          /\ BookUnchanged
          /\ UNCHANGED <<inventory, gold, quantity>>]_vars

\* C5: step(t) leaves every listing whose tick satisfies t - tick <= duration (the
\* tick of the item's most recent sell) as it is, with its listed price, whatever
\* stale entries the queue holds for the item.
StepKeepsFreshListings ==
  [][last'.op = "step" =>
       \A i \in DOMAIN item_listings :
         last'.tick - item_listings[i].tick <= Duration
         => /\ Listed(i)'
            /\ item_listings'[i] = item_listings[i]
            /\ listed_price'[i] = listed_price[i]]_vars

\* step popped a stale queue entry of an item that was listed again later, and the
\* item is still listed.
StepKeepsFreshWitness ==
  /\ last.op = "step"
  /\ \E k \in 1..Len(last.popped) :
       LET i == last.popped[k][1] IN
       /\ Listed(i)
       /\ item_listings[i].tick > last.popped[k][2]
       /\ last.tick - item_listings[i].tick <= Duration

\* C6: once step(t) has returned, no listing with t - tick > duration is active, and
\* every item it evicted has listed_price 0.
StepEvictsExpiredListings ==
  [][last'.op = "step" =>
       /\ \A i \in DOMAIN item_listings' :
            last'.tick - item_listings'[i].tick <= Duration
       /\ \A i \in (DOMAIN item_listings) \ (DOMAIN item_listings') :
            listed_price'[i] = 0]_vars

\* step evicted the listing of an item and kept the one of another.
StepEvictsWitness ==
  /\ last.op = "step" /\ last.evicted # {}
  /\ \E i \in Items : Listed(i) /\ listed_price[i] # 0

\* C7: a sell of an item that is not in the seller's inventory, or whose quantity is
\* zero or less, raises an error and changes neither the listings, the expiry queue
\* nor any listed price.
SellRejectsUnownedOrEmpty ==
  [][\A s \in Ents, i \in Items :
       ( /\ last'.op = "sell" /\ last'.ent = s /\ last'.item = i
         /\ (i \notin inventory[s] \/ quantity[i] <= 0) )
       => /\ last'.err # "none"
          /\ BookUnchanged]_vars

\* A sell by an entity that does not hold the item was rejected while the item is
\* listed by its holder.
SellRejectsWitness ==
  /\ last.op = "sell" /\ last.err = "AssertionError"
  /\ last.item \notin inventory[last.ent]
  /\ quantity[last.item] > 0
  /\ Listed(last.item)

\* C8: a sell that succeeds makes the listing of the item carry the seller, price
\* and tick of the call, replacing the listing the item had, appends (item, tick) to
\* the expiry queue, sets the item's listed price, and changes no other listing, no
\* inventory and no gold.
SellListsLatest ==
  [][\A s \in Ents, i \in Items :
       ( /\ last'.op = "sell" /\ last'.ent = s /\ last'.item = i
         /\ last'.err = "none" )
       => /\ DOMAIN item_listings' = (DOMAIN item_listings) \cup {i}
          /\ item_listings'[i] =
               [seller |-> s, price |-> last'.price, tick |-> last'.tick]
          /\ \A j \in (DOMAIN item_listings) \ {i} : item_listings'[j] = item_listings[j]
          /\ listings_queue' = Append(listings_queue, <<i, last'.tick>>)
          /\ listed_price' = [listed_price EXCEPT ![i] = last'.price]
          /\ UNCHANGED <<inventory, gold, quantity>>]_vars

\* An item was listed again, at a later tick and another price: the queue holds the
\* entries of both calls and the listing is the second call's.
SellListsLatestWitness ==
  /\ last.op = "sell" /\ last.err = "none"
  /\ \E k \in 1..Len(listings_queue) :
       /\ listings_queue[k][1] = last.item
       /\ listings_queue[k][2] < last.tick
  /\ item_listings[last.item].tick = last.tick
  /\ item_listings[last.item].price = last.price
  /\ last.price > 0

\* C9: within one Realm.step the actions run in ascending order of priority value:
\* no action runs after an action of a higher priority value, whoever submitted it.
ExecutedInPriorityOrder ==
  \A j, k \in 1..Len(executed) :
    j < k => executed[j].priority <= executed[k].priority

\* The Attack of the NPC ran first and the Move of a player after it, while the
\* Move of another entity is still to run.
PriorityOrderWitness ==
  /\ pc = "exec"
  /\ Len(executed) >= 2
  /\ executed[1].ent \in NPCs /\ executed[1].priority = 1
  /\ \E k \in 2..Len(executed) : executed[k].ent \in Ents /\ executed[k].priority = 2
  /\ Pending(merged)

\* C10: every action Realm.step executes is executed for an entity that is alive
\* when the action runs.
ExecutedOnlyForAlive ==
  \A k \in 1..Len(executed) : executed[k].alive

\* The pair the loop of Realm.step has just executed
StepExecutes == pc = "exec" /\ Len(executed') = Len(executed) + 1
Current == executed'[Len(executed')]

\* C11: when two entities attack one target at the same priority and the attack
\* resolved first kills it, the second attack is skipped without error: it changes
\* no health, no inventory and no kill counter; and the dead list the step returns
\* holds the victim.
SecondAttackIsSkipped ==
  [][/\ \A v \in Ents :
          ( /\ StepExecutes
            /\ Current.atn = "Attack" /\ Current.target = v
            /\ v \in entities /\ health[v] <= 0
            /\ \E k \in 1..Len(executed) :
                 /\ executed[k].atn = "Attack" /\ executed[k].target = v
                 /\ executed[k].priority = Current.priority
                 /\ executed[k].ent # Current.ent )
          => /\ pc' # "error"
             /\ UNCHANGED <<health, inventory, player_kills>>
     /\ (pc = "exec" /\ pc' = "culled")
          => \A v \in Ents : (v \in entities /\ health[v] <= 0) => v \in dead'
    ]_vars

\* C12: in every Realm.step the update hooks of the entities run after all the
\* actions of the tick: when they run, no action of the step is left to execute.
UpdateAfterAllActions ==
  [][(~updated /\ updated') => ~Pending(merged')]_vars

\* C13: the list Realm.step returns holds exactly the entities whose health reached
\* zero or below during the tick, and none of them is in the entity store after the
\* step.
DeadListIsAllDead ==
  [][(pc = "exec" /\ pc' = "culled")
       => /\ dead' = {e \in entities : health[e] <= 0}
          /\ \A e \in entities : health[e] <= 0 => e \notin entities']_vars

\* C13 as amended: the list Realm.step returns holds exactly the players whose
\* health reached zero or below during the tick; these and the NPCs whose health
\* did are not in the entity store after the step, and every other entity is.
DeadListIsDeadPlayers ==
  [][(pc = "exec" /\ pc' = "culled")
       => /\ dead' = {e \in entities : e > 0 /\ health[e] <= 0}
          /\ entities' = {e \in entities : health[e] > 0}]_vars

\* A step culled a player and an NPC, and returned the player alone.
DeadListWitness ==
  /\ pc = "culled"
  /\ dead # {} /\ dead \subseteq Ents
  /\ \E n \in NPCs : n \notin entities /\ health[n] = 0
  /\ \E e \in Ents : e \in entities

\* C14: at the end of every Realm.step no active listing of the exchange names a
\* seller that died and was removed during the step.
NoListingOfDeadSeller ==
  pc = "idle" => \A i \in DOMAIN item_listings : item_listings[i].seller \notin dead

\* C16: the tick decreases by reset alone; a completed Realm.step adds exactly 1 to
\* it and calls Exchange.step once, after the culls, with the tick before the
\* increment; reset sets the tick to 0 and leaves an empty exchange and no item.
ClockAdvancesByStep ==
  [][/\ realm_tick' < realm_tick => last'.op = "reset"
     /\ (pc = "culled" /\ pc' = "idle")
          => /\ realm_tick' = realm_tick + 1
             /\ last'.op = "step" /\ last'.tick = realm_tick
             /\ \A i \in DOMAIN item_listings :
                  (i \in DOMAIN item_listings')
                    <=> (realm_tick - item_listings[i].tick <= Duration)
     /\ (last'.op = "step" /\ last' # last) => (pc = "culled" /\ pc' = "idle")
     /\ (pc \in {"exec", "culled"} /\ pc' \in {"exec", "culled", "error"})
          => /\ realm_tick' = realm_tick
             /\ BookUnchanged
     /\ (pc = "idle" /\ pc' \in {"exec", "error"})
          => /\ realm_tick' = realm_tick
             /\ BookUnchanged
     /\ (last'.op = "reset" /\ last' # last)
          => /\ realm_tick' = 0
             /\ item_listings' = <<>> /\ listings_queue' = <<>>
             /\ \A e \in AllEnts : inventory'[e] = {}
    ]_vars

\* A step that culled a dead player was completed at tick 0: the exchange was
\* stepped at 0, a listing made before the step is still there, and the tick is 1.
ClockWitness ==
  /\ pc = "idle" /\ realm_tick = 1
  /\ last.op = "step" /\ last.tick = 0
  /\ dead # {}
  /\ item_listings # <<>>

\* Two runs were reset from the same seed, spawn at the same danger and were fed
\* the same inputs
SameRun(a, b) ==
  /\ runs[a].seed # None
  /\ runs[a].seed = runs[b].seed
  /\ runs[a].danger = runs[b].danger
  /\ runs[a].inputs = runs[b].inputs

\* C15: two runs reset from the same world seed and fed the same inputs have the
\* same spawn positions and execute their actions in the same order (hence the same
\* healths and dead lists).
SameSeedSameRun ==
  \A a, b \in Runs :
    SameRun(a, b) => (runs[a].pos = runs[b].pos /\ runs[a].orders = runs[b].orders)

\* The half of C15 about the shuffle: the orders of the shuffled buckets agree.
SameSeedSameShuffle ==
  \A a, b \in Runs : SameRun(a, b) => runs[a].orders = runs[b].orders

\* Two runs from one seed have shuffled the same bucket of three.
SameSeedSameShuffleWitness ==
  /\ SameRun(1, 2)
  /\ Len(runs[1].orders) >= 1
  /\ Len(runs[1].orders[1]) = 3
  /\ runs[1].orders[1] # runs[1].inputs[1]

\* C17: the damage combat.attack returns and applies is never negative; with the
\* default formula, offense 50, defense 20 and multiplier 1.0 give 30, and a
\* defense of at least the offense gives 0.
DamageNeverNegative ==
  Attacked =>
    /\ combat.returned >= 0
    /\ combat.received = combat.returned /\ combat.inflicted = combat.returned
    /\ (combat.in.formula = "default" /\ combat.offense = 50 /\ combat.defense = 20
          /\ combat.multiplier = 10)
       => combat.returned = 30
    /\ (combat.in.formula = "default" /\ combat.defense >= combat.offense)
       => combat.returned = 0

\* An attack of offense 50 on a defense of 60 at the weakness multiplier.
DamageNeverNegativeWitness ==
  /\ Attacked
  /\ combat.in.formula = "default"
  /\ combat.offense = 50 /\ combat.defense = 60
  /\ combat.multiplier = 15
  /\ combat.returned = 0

\* round(v) for v in tenths: to the nearest integer, a half to the even one
Round(v) ==
  LET a == IF v >= 0 THEN v ELSE -v
      f == a \div 10
      r == a % 10
      n == IF r > 5 \/ (r = 5 /\ f % 2 = 1) THEN f + 1 ELSE f
  IN  IF v >= 0 THEN n ELSE -n

\* C18: the damage is max(0, round(f(offense, defense, multiplier))) for the
\* configured formula f: a result that is no integer is rounded to the nearest.
DamageIsRounded ==
  Attacked =>
    LET v == IF combat.in.formula = "default"
             THEN combat.multiplier * (combat.offense - combat.defense)
             ELSE combat.multiplier * combat.offense
    IN  combat.damage = (IF Round(v) > 0 THEN Round(v) ELSE 0)

\* The three styles as the claims name them
FirstStyle == "Melee"
SecondStyle == "Range"
ThirdStyle == "Mage"

\* C19: for each style, offense = base_damage + level_damage * the attacker's level
\* in the style + the attacker's equipment offense of the style, and defense =
\* base_defense + level_defense * the defender's overall level + the defender's
\* equipment defense of the style; the equipment terms are 0 without the equipment
\* system, the level and defense terms 0 without the progression system.
OffenseDefenseTerms ==
  Attacked =>
    LET in   == combat.in
        prog == in.PROGRESSION_SYSTEM_ENABLED
        eq   == in.EQUIPMENT_SYSTEM_ENABLED
        overall == CHOOSE l \in {in.levels[s] : s \in StyleSet} :
                     \A s \in StyleSet : l >= in.levels[s]
    IN  /\ combat.offense =
             (IF prog THEN PROGRESSION_BASE_DAMAGE[in.skill] ELSE COMBAT_DAMAGE[in.skill])
             + (IF prog THEN PROGRESSION_LEVEL_DAMAGE[in.skill] * in.level ELSE 0)
             + (IF eq THEN in.attack[in.skill] ELSE 0)
        /\ combat.defense =
             (IF prog THEN PROGRESSION_BASE_DEFENSE + PROGRESSION_LEVEL_DEFENSE * overall
                      ELSE 0)
             + (IF eq THEN in.defense[in.skill] ELSE 0)

\* A range attack with both systems on, by an attacker of level 2 with equipment,
\* on a target with equipment whose range level is below its overall level.
OffenseDefenseWitness ==
  /\ Attacked
  /\ combat.in.skill = SecondStyle
  /\ combat.in.PROGRESSION_SYSTEM_ENABLED /\ combat.in.EQUIPMENT_SYSTEM_ENABLED
  /\ combat.in.level = 2
  /\ combat.in.attack[SecondStyle] > 0 /\ combat.in.defense[SecondStyle] > 0
  /\ combat.in.levels[SecondStyle] < combat.in.levels[ThirdStyle]

\* The first style, in the order melee, range, mage, among those of the highest
\* experience
Dominant(exp) ==
  IF exp[FirstStyle] >= exp[SecondStyle] /\ exp[FirstStyle] >= exp[ThirdStyle]
  THEN FirstStyle
  ELSE IF exp[SecondStyle] >= exp[ThirdStyle] THEN SecondStyle ELSE ThirdStyle

\* C20: for every combination of the defender's experience values, ties included,
\* the multiplier is COMBAT_WEAKNESS_MULTIPLIER if the attacker's style is the
\* weakness of the defender's dominant style (the first of melee, range, mage among
\* those of the highest experience) and 1.0 otherwise.
MultiplierTiesToFirst ==
  Attacked =>
    combat.multiplier =
      (IF combat.in.skill = weakness[Dominant(combat.in.exp)] THEN 15 ELSE 10)

\* C20 as amended: when the defender's three experience values are all equal the
\* multiplier is 1.0; otherwise it is COMBAT_WEAKNESS_MULTIPLIER if the attacker's
\* style is the weakness of the dominant style, ties among the highest resolved to
\* the first of melee, range, mage, and 1.0 if it is not.
MultiplierTiesToFirstUnlessAllEqual ==
  Attacked =>
    LET exp == combat.in.exp IN
    combat.multiplier =
      (IF exp[FirstStyle] = exp[SecondStyle] /\ exp[SecondStyle] = exp[ThirdStyle]
       THEN 10
       ELSE IF combat.in.skill = weakness[Dominant(exp)] THEN 15 ELSE 10)

\* The defender's melee and range experience tie above its mage experience and the
\* attacker's style is the weakness of melee: the weakness multiplier applies.
MultiplierWitness ==
  /\ Attacked
  /\ combat.in.exp[FirstStyle] = combat.in.exp[SecondStyle]
  /\ combat.in.exp[ThirdStyle] < combat.in.exp[FirstStyle]
  /\ combat.in.skill = weakness[FirstStyle]
  /\ combat.multiplier = 15

\* The call fight has just followed
Fought(op) == fight'.n = fight.n + 1 /\ fight'.last.op = op

\* C21: every call of combat.attack by an attacker that has ammunition equipped,
\* with the equipment system enabled, uses up exactly one unit of it, whether the
\* damage is positive or zero and whether or not the target is immortal; an attacker
\* with no ammunition equipped uses none, and nobody else's ammunition changes.
AttackUsesOneAmmunition ==
  [][\A a \in Ents :
       (Fought("attack") /\ fight'.last.ent = a)
       => /\ (fight.EQUIPMENT_SYSTEM_ENABLED /\ fight.ammunition[a] > 0)
               => fight'.ammunition[a] = fight.ammunition[a] - 1
          /\ fight.ammunition[a] = 0 => fight'.ammunition[a] = 0
          /\ \A e \in Ents \ {a} : fight'.ammunition[e] = fight.ammunition[e]]_vars

\* An attack of damage 0 on an immortal target has used up the last unit of the
\* attacker's ammunition, after an attack of positive damage had used up one.
AttackUsesOneAmmunitionWitness ==
  /\ fight.last.op = "attack" /\ fight.last.dmg = 0
  /\ fight.immortal[fight.last.target]
  /\ fight.EQUIPMENT_SYSTEM_ENABLED
  /\ fight.ammunition[fight.last.ent] = 0
  /\ fight.damage_inflicted[fight.last.ent] > 0
  /\ fight.n = 2

\* The attack the loop of Realm.step has just executed brought the health of the
\* player v, alive until then, to zero
Kills(v) ==
  /\ StepExecutes
  /\ Current.atn = "Attack" /\ Current.target = v
  /\ v \in entities /\ health[v] > 0 /\ health'[v] <= 0

\* C22: an attack that brings the health of a player to zero moves all the items of
\* the player's inventory to the attacker's; and no item is lost by the end of the
\* tick: no player the step removes holds an item when it is removed.
KillTransfersItems ==
  [][/\ \A v \in Ents :
          Kills(v) => /\ inventory'[v] = {}
                      /\ inventory'[Current.ent] = inventory[Current.ent] \cup inventory[v]
     /\ (pc = "exec" /\ pc' = "culled")
          => \A e \in Ents : (e \in entities /\ e \notin entities') => inventory[e] = {}
    ]_vars

\* The half of C22 about the attack itself: the items of the killed player are all
\* in the attacker's inventory once the attack has run.
KillTransfersItemsAtOnce ==
  [][\A v \in Ents :
       Kills(v) => /\ inventory'[v] = {}
                   /\ inventory'[Current.ent] = inventory[Current.ent] \cup inventory[v]
    ]_vars

\* A step that removed a player whose item the surviving attacker holds is over.
KillTransfersItemsWitness ==
  /\ pc = "culled"
  /\ \E v \in Ents, a \in Ents :
       /\ v \in dead /\ a \in entities /\ health[a] > 0
       /\ inventory[v] = {} /\ v \in inventory[a]

\* C23: a player with the immortal flag set is never marked dead and never loses an
\* item, whatever attacks and death-fog updates it goes through; and each attack on
\* it still adds its damage to the attacker's inflicted-damage record.
ImmortalKeepsLifeAndItems ==
  /\ [](fight # <<>> => \A e \in Ents : fight.immortal[e] => fight.health[e] > 0)
  /\ [][\A e \in Ents :
          fight.immortal[e]
          => /\ fight.inventory[e] \subseteq fight'.inventory[e]
             /\ \A a \in Ents :
                  (Fought("attack") /\ fight'.last.ent = a /\ fight'.last.target = e)
                  => fight'.damage_inflicted[a]
                       = fight.damage_inflicted[a] + fight'.last.dmg]_vars

\* An immortal player went through attacks of a total damage of its health or more
\* and then through a death-fog update of positive damage.
ImmortalWitness ==
  /\ fight.last.op = "update" /\ fight.last.dmg > 0
  /\ fight.immortal[fight.last.ent]
  /\ \E a \in Ents \ {fight.last.ent} : fight.damage_inflicted[a] >= MaxHealth
  /\ fight.inventory[fight.last.ent] # {}

\* The sum of a field over the listings of the indices in S
RECURSIVE SumOf(_, _, _)
SumOf(ls, S, field) ==
  IF S = {} THEN 0
  ELSE LET k == CHOOSE x \in S : TRUE IN ls[k][field] + SumOf(ls, S \ {k}, field)

\* C24: the summary Exchange.packet returns holds, for every item type and level
\* with at least one active listing, the minimum, the maximum and the mean of the
\* listed prices of all its listings and the sum of their quantities, and nothing
\* else; with no active listing it is an empty summary.
PacketSummarizesListings ==
  Packed =>
    LET ls     == summary.listings
        keys   == {ls[k].key : k \in DOMAIN ls}
        Of(key) == {k \in DOMAIN ls : ls[k].key = key}
    IN  /\ ~summary.returned.none
        /\ DOMAIN summary.returned.value = keys
        /\ \A key \in keys :
             LET e == summary.returned.value[key] IN
             /\ \A k \in Of(key) : e.min_price <= ls[k].price /\ ls[k].price <= e.max_price
             /\ \E k \in Of(key) : e.min_price = ls[k].price
             /\ \E k \in Of(key) : e.max_price = ls[k].price
             /\ e.price * Cardinality(Of(key)) = Halves * SumOf(ls, Of(key), "price")
             /\ e.supply = SumOf(ls, Of(key), "quantity")

\* What does hold of C24: with at least one listing, the summary holds the key of
\* the first listing alone, with the price and the quantity of that listing.
PacketSummarizesFirstListing ==
  (Packed /\ summary.listings # <<>>) =>
    LET first == summary.listings[1]
        e     == summary.returned.value[first.key]
    IN  /\ ~summary.returned.none
        /\ DOMAIN summary.returned.value = {first.key}
        /\ e.min_price = first.price /\ e.max_price = first.price
        /\ e.price = Halves * first.price
        /\ e.supply = first.quantity

\* The call of reward the tasks have just made for agent a
Rewarded(a) == tasks'.n = tasks.n + 1 /\ Len(tasks'.log[a]) = Len(tasks.log[a]) + 1

\* The calls of reward made so far, on the task instance agent a holds, on which
\* evaluate was true
RECURSIVE TrueCallsOf(_)
TrueCallsOf(S) ==
  IF S = {} THEN 0
  ELSE LET b == CHOOSE x \in S : TRUE
       IN  Cardinality({k \in 1..Len(tasks.log[b]) : tasks.log[b][k].ev})
             + TrueCallsOf(S \ {b})
TrueCalls(a) == TrueCallsOf({b \in DOMAIN tasks.task : tasks.task[b] = tasks.task[a]})

\* The sum of the rewards of a log
RECURSIVE Total(_)
Total(log) == IF log = <<>> THEN 0 ELSE Head(log).returned + Total(Tail(log))

\* The totals of C25: with the defaults reward 1 and discount factor 0 a TRUE task
\* that is no team task has given 1 in all to an agent it rewarded; a FALSE task 0
DefaultTotals(a) ==
  /\ (tasks.class = "TRUE" /\ tasks._reward = 1 /\ tasks._discount_factor = 0
        /\ ~tasks.team_task)
     => Total(tasks'.log[a]) = 1
  /\ tasks.class = "FALSE" => Total(tasks'.log[a]) = 0

\* C25: the k-th call of reward() on which evaluate() is true returns
\* reward * discount_factor^(k-1); a call on which evaluate() is false returns 0 and
\* leaves the completion count; hence the totals 1 for TRUE and 0 for FALSE with the
\* defaults.
RewardIsDiscounted ==
  [][\A a \in Agents :
       Rewarded(a) =>
         LET i == tasks.task[a]
             e == tasks'.log[a][Len(tasks'.log[a])]
             k == TrueCalls(a) + 1
         IN  /\ e.ev => e.returned = tasks._reward * Pow(tasks._discount_factor, k - 1)
             /\ ~e.ev => /\ e.returned = 0
                         /\ tasks'._completion_count[i] = tasks._completion_count[i]
             /\ DefaultTotals(a)]_vars

\* C25 as amended: a call of reward() made at a completion count c that is not above
\* maximum_completion returns reward * discount_factor^c and advances the count to
\* c + 1 if evaluate() is true, and returns 0 and leaves the count if it is false; a
\* call made at a count above maximum_completion returns 0 and leaves the count;
\* hence the totals 1 for TRUE and 0 for FALSE with the defaults.
RewardIsDiscountedUpToMaximum ==
  [][\A a \in Agents :
       Rewarded(a) =>
         LET i == tasks.task[a]
             e == tasks'.log[a][Len(tasks'.log[a])]
             c == tasks._completion_count[i]
         IN  /\ (c <= tasks._maximum_completion /\ e.ev)
                 => /\ e.returned = tasks._reward * Pow(tasks._discount_factor, c)
                    /\ tasks'._completion_count[i] = c + 1
             /\ (c <= tasks._maximum_completion /\ ~e.ev)
                 => /\ e.returned = 0
                    /\ tasks'._completion_count[i] = c
             /\ c > tasks._maximum_completion
                 => /\ e.returned = 0
                    /\ tasks'._completion_count[i] = c
             /\ DefaultTotals(a)]_vars

\* An agent's own task of reward 2, discount factor 2 and maximum_completion 1 gave
\* 2, then 4, then 0 on three calls on which evaluate was true.
RewardWitness ==
  /\ tasks # <<>> /\ ~tasks.team_task
  /\ \E a \in Agents :
       /\ Len(tasks.log[a]) = 3
       /\ \A k \in 1..3 : tasks.log[a][k].ev
       /\ tasks.log[a][1].returned = 2
       /\ tasks.log[a][2].returned = 4
       /\ tasks.log[a][3].returned = 0

\* The calls of reward made so far for the agents of S that advanced the completion
\* count
RECURSIVE Completions(_)
Completions(S) ==
  IF S = {} THEN 0
  ELSE LET b == CHOOSE x \in S : TRUE
       IN  Cardinality({k \in 1..Len(tasks.log[b]) :
                          tasks.log[b][k].left = tasks.log[b][k].seen + 1})
             + Completions(S \ {b})

Team(a) == {b \in Agents : population_id[b] = population_id[a]}

\* C26: for a task of a class decorated with team_task, generate gives the agents
\* of one team one task instance and the agents of different teams different ones;
\* so a call of reward for an agent finds the completion count the calls for its
\* team mates left; and agents of different teams whose calls found the same count
\* and the same value of evaluate received the same reward.
TeamTaskSharesState ==
  /\ [](tasks # <<>> /\ tasks.team_task
          => /\ \A a, b \in DOMAIN tasks.task :
                  (tasks.task[a] = tasks.task[b]) <=> (population_id[a] = population_id[b])
             /\ \A a, b \in Agents :
                  population_id[a] # population_id[b]
                  => \A j \in 1..Len(tasks.log[a]), k \in 1..Len(tasks.log[b]) :
                       ( /\ tasks.log[a][j].seen = tasks.log[b][k].seen
                         /\ tasks.log[a][j].ev = tasks.log[b][k].ev )
                       => tasks.log[a][j].returned = tasks.log[b][k].returned)
  /\ [][\A a \in Agents :
          (tasks.team_task /\ Rewarded(a))
          => tasks'.log[a][Len(tasks'.log[a])].seen = Completions(Team(a))]_vars

\* One tick of a TRUE team task of reward 1 and discount factor 2: the second
\* rewarded agent of each team received 2, the first 1.
TeamTaskWitness ==
  /\ tasks # <<>> /\ tasks.team_task /\ tasks.n = 4
  /\ \A a \in Agents : Len(tasks.log[a]) = 1
  /\ tasks.log[1][1].returned = 1 /\ tasks.log[2][1].returned = 2
  /\ tasks.log[4][1].returned = 1 /\ tasks.log[3][1].returned = 2

\* C27: AND evaluates true iff every operand evaluates true, OR iff at least one
\* does, NOT is the negation of its operand, IMPLY is false only when its first
\* operand evaluates true and its second false; &, | and ~ build AND, OR and NOT of
\* their operands in both modules, and >>, where the base class defines it
\* (PredicateTask of nmmo/lib/task.py), builds IMPLY.
CombinationsEvaluate ==
  Evaluated =>
    LET op == expr.in.op
        v  == expr.vals
    IN  /\ (op \in {"AND", "OR", "NOT", "IMPLY", "&", "|", "~"}) => expr.err = "none"
        /\ (op = ">>" /\ expr.in.module = "task") => expr.err = "none"
        /\ expr.err = "none" =>
             /\ op \in {"AND", "&"} => (expr.value <=> \A k \in DOMAIN v : v[k])
             /\ op \in {"OR", "|"} => (expr.value <=> \E k \in DOMAIN v : v[k])
             /\ op \in {"NOT", "~"} => (expr.value <=> ~v[1])
             /\ op \in {"IMPLY", ">>"} => (~expr.value <=> (v[1] /\ ~v[2]))
             /\ op = "&" => expr.task = [class |-> "AND", tasks |-> expr.in.operands]
             /\ op = "|" => expr.task = [class |-> "OR", tasks |-> expr.in.operands]
             /\ op = "~" => expr.task = [class |-> "NOT", tasks |-> expr.in.operands]
             /\ op = ">>" => expr.task = [class |-> "IMPLY", tasks |-> expr.in.operands]

\* p >> q of nmmo/lib/task.py evaluated false, for a p that is a negation and
\* evaluates true and a q that evaluates false.
CombinationsWitness ==
  /\ Evaluated /\ expr.err = "none"
  /\ expr.in.op = ">>" /\ expr.in.module = "task"
  /\ expr.in.operands[1].class = "NOT"
  /\ expr.vals[1] /\ ~expr.vals[2]
  /\ ~expr.value

\* The teams of agent list l cut into n contiguous pieces of equal size, from 0
Pieces(l, n) ==
  [i \in 0..(n - 1) |-> SubSeq(l, i * (Len(l) \div n) + 1, (i + 1) * (Len(l) \div n))]

\* The agents of a list
Members(l) == {l[k] : k \in 1..Len(l)}

\* C28: a constructed TeamHelper(agents, n) cuts the agent list into n contiguous
\* teams of equal size; own_team(a) is the team that contains a, left_team(a) and
\* right_team(a) are the teams before and after it, the last team being before
\* the first, so the left team of an agent of a's right team is a's own team;
\* all() holds every agent exactly once.
TeamHelperPartitions ==
  Constructed =>
    LET n  == helper.num_teams
        ps == Pieces(helper.agents, n)
    IN  /\ \A a \in DOMAIN helper.own :
             \E i \in 0..(n - 1) :
               /\ a \in Members(ps[i])
               /\ helper.own[a].agents = ps[i]
               /\ helper.left[a].agents = ps[IF i = 0 THEN n - 1 ELSE i - 1]
               /\ helper.right[a].agents = ps[IF i = n - 1 THEN 0 ELSE i + 1]
        /\ \A a \in DOMAIN helper.own :
             \A b \in Members(helper.right[a].agents) \cap DOMAIN helper.left :
               helper.left[b].agents = helper.own[a].agents
        /\ \A a \in DOMAIN helper.own :
             \A b \in Members(helper.left[a].agents) \cap DOMAIN helper.right :
               helper.right[b].agents = helper.own[a].agents
        /\ helper.all # <<>> =>
             /\ Members(helper.all[1].agents) = Members(helper.agents)
             /\ Len(helper.all[1].agents) = Cardinality(Members(helper.agents))

\* Four agents in two teams, not in the order of their ids: the teams of an agent
\* of the first team and of an agent of the last were asked for, the left team of
\* the first and the right team of the last wrapping around, and so was all().
TeamHelperWitness ==
  /\ Constructed
  /\ helper.agents = <<3, 1, 4, 2>> /\ helper.num_teams = 2
  /\ DOMAIN helper.own = {3, 2}
  /\ helper.left[3].agents = <<4, 2>>
  /\ helper.right[2].agents = <<3, 1>>
  /\ helper.all # <<>>

\* The queue entry at position k is expired at the tick
EntryExpired(k, current_tick) ==
  current_tick - listings_queue[k][2] > EXCHANGE_LISTING_DURATION

\* C29: with sell() called at non-decreasing ticks, the queue is ordered by
\* non-decreasing tick from head to tail after any calls of sell, buy,
\* unlist_item and step; so at any tick at which the head is not expired, no
\* entry is expired.
QueueOrderedByTick ==
  /\ \A j, k \in 1..Len(listings_queue) :
       j < k => listings_queue[j][2] <= listings_queue[k][2]
  /\ \A t \in Ticks :
       (listings_queue # <<>> /\ ~EntryExpired(1, t)) =>
         \A k \in 1..Len(listings_queue) : ~EntryExpired(k, t)

\* A step stopped at a head that is not expired, with a younger entry behind it
\* that a later step would find expired after the head.
QueueOrderedWitness ==
  /\ last.op = "step"
  /\ Len(listings_queue) >= 2
  /\ ~EntryExpired(1, last.tick)
  /\ listings_queue[1][2] < listings_queue[Len(listings_queue)][2]

\* C30: with sell() called at non-decreasing ticks, every active listing has a
\* queue entry of its item with exactly its own tick, after any calls of sell
\* (of a listed item too), buy, unlist_item and step.
ListingHasQueueEntry ==
  \A i \in DOMAIN item_listings :
    \E k \in 1..Len(listings_queue) :
      listings_queue[k] = <<i, item_listings[i].tick>>

\* A step popped the expired entry of an item that was sold again later: the
\* listing is still active and its own entry is still in the queue.
ListingHasQueueEntryWitness ==
  /\ last.op = "step"
  /\ \E i \in DOMAIN item_listings :
       /\ \E k \in 1..Len(last.popped) :
            last.popped[k][1] = i /\ last.popped[k][2] < item_listings[i].tick
       /\ \E k \in 1..Len(listings_queue) :
            listings_queue[k] = <<i, item_listings[i].tick>>

\* The queue entries of the item among the entries a step popped
PoppedOf(popped, i) == {k \in 1..Len(popped) : popped[k][1] = i}

\* C31: a step that pops queue entries of an item that is no longer listed (it was
\* bought or unlisted), or that was listed again at a tick that is not expired,
\* raises no error and changes neither the listing nor the listed_price of the
\* item; the popped entries leave the queue and nothing else does.
StepDiscardsStaleEntries ==
  [][last'.op = "step" =>
       /\ last'.err = "none"
       /\ listings_queue = last'.popped \o listings_queue'
       /\ \A i \in Items :
            ( /\ PoppedOf(last'.popped, i) # {}
              /\ \/ i \notin DOMAIN item_listings
                 \/ last'.tick - item_listings[i].tick <= EXCHANGE_LISTING_DURATION )
            => /\ (i \in DOMAIN item_listings) = (i \in DOMAIN item_listings')
               /\ i \in DOMAIN item_listings => item_listings'[i] = item_listings[i]
               /\ listed_price'[i] = listed_price[i]]_vars

\* A step popped the entry of an item that was sold again later, at a tick that is
\* not expired, and evicted nothing: the item keeps its listing and its price.
StepDiscardsStaleWitness ==
  /\ last.op = "step" /\ last.err = "none"
  /\ last.popped # <<>> /\ last.evicted = {}
  /\ \E j \in DOMAIN item_listings :
       /\ PoppedOf(last.popped, j) # {}
       /\ item_listings[j].tick > last.popped[1][2]
       /\ last.tick - item_listings[j].tick <= EXCHANGE_LISTING_DURATION
       /\ listed_price[j] = item_listings[j].price /\ listed_price[j] > 0

\* The bucket the loop of Realm.step is in: the pairs of the lowest priority left
CurrentBucket == merged[NextBucket(merged)]

\* C32: the actions of players and NPCs of one priority are in one bucket, and
\* while the loop of Realm.step is in a bucket, each pair left in it can be the
\* next to run, whoever submitted it: every order of the bucket is possible.
BucketRunsInAnyOrder ==
  /\ \A p \in DOMAIN merged : \A a \in merged[p] : priority(a.atn) = p
  /\ (pc = "exec" /\ Pending(merged)) =>
       \A a \in CurrentBucket :
         ENABLED ( /\ RealmStepExecute
                   /\ merged' = [merged EXCEPT ![NextBucket(merged)] = @ \ {a}] )

\* In one bucket the action of an NPC ran before the action of a player, with the
\* action of another player of that priority still to run.
BucketRunsInAnyOrderWitness ==
  /\ pc = "exec" /\ Len(executed) = 2
  /\ executed[1].ent \in NPCs /\ executed[2].ent \in Ents
  /\ executed[1].priority = executed[2].priority
  /\ Pending(merged)
  /\ NextBucket(merged) = executed[2].priority
  /\ \E a \in CurrentBucket : a.ent \in Ents

\* The pairs still in the buckets, and the pairs that have run in this step
PairsLeft == UNION {merged[p] : p \in DOMAIN merged}
PairOf(x) == [ent |-> x.ent, atn |-> x.atn, target |-> x.target]
PairsRun == {PairOf(executed[k]) : k \in 1..Len(executed)}

\* C33: every pair Realm.step takes from a bucket for an entity that is alive at
\* that time is executed then, no pair is executed twice or executed and left in
\* its bucket, the loop ends with every bucket empty, and nothing submitted to a
\* step is left for the next one.
SubmittedRunsExactlyOnce ==
  /\ [](/\ \A j, k \in 1..Len(executed) :
              PairOf(executed[j]) = PairOf(executed[k]) => j = k
        /\ PairsRun \cap PairsLeft = {}
        /\ pc \in {"culled", "idle"} => PairsLeft = {}
        /\ pc = "idle" => executed = <<>>)
  /\ [][(pc = "exec" /\ PairsLeft' # PairsLeft) =>
          \E a \in CurrentBucket :
            /\ PairsLeft' = PairsLeft \ {a}
            /\ (alive(health, a.ent) =>
                  /\ pc' = "exec"
                  /\ Len(executed') = Len(executed) + 1
                  /\ SubSeq(executed', 1, Len(executed)) = executed
                  /\ PairOf(executed'[Len(executed')]) = a)]_vars

\* The second step of a realm has run three pairs and left none: the Attack and
\* the Move of one player and the action of an NPC.
SubmittedRunsWitness ==
  /\ pc = "culled" /\ realm_tick = 1
  /\ Len(executed) = 3
  /\ \E j, k \in 1..3 :
       /\ executed[j].ent = executed[k].ent /\ executed[j].ent \in Ents
       /\ executed[j].atn = "Attack" /\ executed[k].atn = "Move"
  /\ \E k \in 1..3 : executed[k].ent \in NPCs
  /\ \A k \in 1..3 : executed[k].alive

\* C34: every action of a step runs against the state the actions before it have
\* left: an Attack on an entity of the store takes its damage off the health the
\* target has then, reduced by earlier attacks of the same or an earlier bucket,
\* and changes no other health; any other action changes no health.
LaterActionsSeeEarlierEffects ==
  [][StepExecutes =>
       IF Current.atn = "Attack" /\ Current.target \in entities
       THEN /\ \E dmg \in 0..MaxDamage :
                 health'[Current.target] =
                   IF health[Current.target] > dmg THEN health[Current.target] - dmg
                   ELSE 0
            /\ \A e \in AllEnts \ {Current.target} : health'[e] = health[e]
       ELSE health' = health]_vars

\* In the first step of a realm, before any cull, a player attacked an NPC, which
\* was at full health when the step began, and the Attack of that NPC, of the same
\* bucket, ran after it for an entity that was no longer alive; the player it
\* attacked lost health.
LaterActionsWitness ==
  /\ realm_tick = 0 /\ pc = "exec" /\ Len(executed) = 2
  /\ executed[1].atn = "Attack" /\ executed[1].ent \in Ents
  /\ executed[1].target \in NPCs /\ executed[1].alive
  /\ executed[2].ent = executed[1].target /\ executed[2].atn = "Attack"
  /\ executed[2].target = executed[1].ent
  /\ ~executed[2].alive
  /\ health[executed[1].target] = 0
  /\ health[executed[1].ent] = 0

\* The Chebyshev distance of a tile from the center of the map, that of the
\* player, and the damage a list of at most one damage stands for
DistOf(config, pos) ==
  LET cent == config.MAP_BORDER + config.MAP_CENTER \div 2
  IN  IF abs(pos[1] - cent) >= abs(pos[2] - cent)
      THEN abs(pos[1] - cent) ELSE abs(pos[2] - cent)
FogDist == DistOf(hazard.config, hazard.pos)
Amount(ds) == IF ds = <<>> THEN 0 ELSE ds[1]

FogTicks == hazard.tick - hazard.config.PLAYER_DEATH_FOG[1]
TilesIn == hazard.config.MAP_CENTER \div 2 - FogDist

\* C36: at speed 1 the fog damage is 0 on the tick the fog begins; 10 ticks after
\* it a player at the edge takes 10, a player 10 tiles in (outside the final area)
\* takes 1 and a player farther in takes 0.
FogStartsAtZero ==
  ( /\ FogUpdated
    /\ hazard.config.PLAYER_DEATH_FOG # <<>>
    /\ hazard.config.PLAYER_DEATH_FOG_SPEED = 1 )
  => /\ FogTicks = 0 => Amount(hazard.applied) = 0
     /\ (FogTicks = 10 /\ TilesIn = 0) => Amount(hazard.applied) = 10
     /\ ( /\ FogTicks = 10 /\ TilesIn = 10
          /\ FogDist > hazard.config.PLAYER_DEATH_FOG_FINAL_SIZE )
        => Amount(hazard.applied) = 1
     /\ (FogTicks = 10 /\ TilesIn > 10) => Amount(hazard.applied) = 0

\* The update of a step brings the health of the player, who holds an item of a
\* quantity, to zero
FogKills(e) ==
  /\ pc = "idle" /\ updated'
  /\ e \in entities /\ health[e] > 0 /\ health'[e] = 0
  /\ \E i \in inventory[e] : quantity[i] # 0

\* C37: when the update of a step brings a player that holds items to zero health
\* by fog damage, with the item system enabled, no error is raised and the step
\* goes on; once the culls of the step have run no dead entity is in the store.
FogDeathIsHandled ==
  /\ [](pc = "culled" => \A e \in entities : health[e] > 0)
  /\ [][\A e \in Ents : FogKills(e) => pc' = "exec"]_vars

\* C38: a buy whose preconditions all hold (the item is listed with quantity 1, the
\* buyer has space and gold for the listed price) returns without raising an error.
BuyReturnsNormally ==
  [][\A b \in Ents, i \in Items :
       ( /\ last'.op = "buy" /\ last'.ent = b /\ last'.item = i
         /\ i \in DOMAIN item_listings /\ quantity[i] = 1
         /\ Cardinality(inventory[b]) < ITEM_INVENTORY_CAPACITY
         /\ gold[b] >= listed_price[i] )
       => last'.err = "none"]_vars

\* C39: a task constructed with maximum_completion = m counts at most m
\* completions, on any sequence of reward() calls: the completion count of no
\* instance is above m, and no agent's calls on which evaluate() was counted as
\* completed and could give a reward are more than m.
CompletionsAtMostMaximum ==
  /\ \A i \in DOMAIN tasks._completion_count :
       tasks._completion_count[i] <= tasks._maximum_completion
  /\ \A a \in Agents :
       Cardinality({k \in 1..Len(tasks.log[a]) :
                      tasks.log[a][k].left = tasks.log[a][k].seen + 1})
         <= tasks._maximum_completion

\* C40: in both modules the task TRUE evaluates to true and the task FALSE to
\* false; so NOT(TRUE) evaluates to what FALSE evaluates to, and AND of operands
\* one of which is FALSE evaluates to false.
ConstantsEvaluate ==
  (Evaluated /\ expr.err = "none") =>
    LET ops == expr.in.operands IN
    /\ \A k \in DOMAIN ops :
         /\ ops[k].class = "TRUE" => expr.vals[k]
         /\ ops[k].class = "FALSE" => ~expr.vals[k]
    /\ (expr.in.op \in {"NOT", "~"} /\ ops[1].class = "TRUE")
         => (expr.value <=> EvaluateLeaf(expr.in.module, "FALSE"))
    /\ (expr.in.op \in {"AND", "&"} /\ \E k \in DOMAIN ops : ops[k].class = "FALSE")
         => ~expr.value

\* What the modules do: TRUE evaluates to true in both, FALSE to false in
\* nmmo/lib/task.py and to true in nmmo/lib/task/proposition.py.
ConstantsEvaluateAsCoded ==
  (Evaluated /\ expr.err = "none") =>
    \A k \in DOMAIN expr.in.operands :
      /\ expr.in.operands[k].class = "TRUE" => expr.vals[k]
      /\ expr.in.operands[k].class = "FALSE"
           => (expr.vals[k] <=> expr.in.module = "proposition")
====
